---- MODULE Spec2Model ----
(***************************************************************************)
(* Terminal viewers of experimental-utils: the Kitty graphics protocol     *)
(* encoder of webcat (webcat/kitty.py) called by one caller (Spec) and by  *)
(* concurrent callers (ThreadSpec); the navigation and zoom state of       *)
(* imgcat's ImageViewer and pdfcat's PDFViewer (ViewerSpec); the history,  *)
(* scroll and link state of webcat's WebViewer over a network whose        *)
(* fetches may fail and whose pages may change at any time (WebSpec); the  *)
(* frames of imgcat's AnimationController (AnimationSpec); the URL filter  *)
(* of webcat's WebFetcher (FetcherSpec); the request ids and replies of    *)
(* videocat's VideoPlayer on its mpv socket (PlayerSpec); the key loop of  *)
(* pdfcat (CliSpec).                                                       *)
(*                                                                         *)
(* A Python str is a sequence of characters; a character is a one-letter   *)
(* TLA+ string, and the control character 0x1B is the element ESC.  A      *)
(* bytes object is a sequence of integers in 0..255.  A dict is the        *)
(* sequence of its <<key, value>> pairs in insertion order.  A float is    *)
(* the IEEE 754 double it is, written as the integer value * 2^56 in three *)
(* limbs of 20 bits; every sum and difference is rounded as the hardware   *)
(* rounds it (to nearest, ties to even).                                   *)
(***************************************************************************)
EXTENDS Integers, Sequences, FiniteSets, TLC

\* pc: "idle" between calls, "returned" when a call has returned to its caller;
\* call: the operation called and its arguments; result: the string it
\* returned; prev: the operation called before this one.
VARIABLES pc, prev, call, result

\* Concurrent callers of the encoder.  tpc: each thread's position in the
\* method it runs; tcall: the operation it called and its arguments; frames:
\* the local variables of each call frame; treturn: the string returned.
VARIABLES tpc, tcall, frames, treturn

\* The viewer on screen.  image_viewer, pdf_viewer: the attributes of the
\* ImageViewer or PDFViewer constructed (the other is absent); vcall: the
\* method called last and its argument; vret: what it returned or raised;
\* zoom_moves: how many times zoom_in and zoom_out have changed the zoom.
VARIABLES image_viewer, pdf_viewer, vcall, vret, zoom_moves

\* The browser.  web_viewer: the attributes of the WebViewer; wcall: the
\* method called last, its argument and the URLs it fetched; wret: what it
\* returned.
VARIABLES web_viewer, wcall, wret

\* The animation of a GIF.  animation: the attributes of the
\* AnimationController; clock: what time.time() reads, in milliseconds;
\* acall: the method called last and its argument; aret: what it returned.
VARIABLES animation, clock, acall, aret


\* The HTTP fetcher.  fetcher: the attributes of the WebFetcher; fcall: the
\* method called last, its argument and the URLs that reached the HTTP client
\* during the call; fret: what it returned or raised.
VARIABLES fetcher, fcall, fret


\* The video player.  player: the attributes of the VideoPlayer; ppc: where
\* the call stands ("idle" between calls, "reading" and "quitting" in the
\* loop of _send_command, "closing" in close after it); pcall:
\* the step of _send_command taken last, with the line it read or what recv
\* gave; pret: what the last call returned or raised; wire: the request ids
\* written to the socket, in order.
VARIABLES player, ppc, pcall, pret, wire


\* The interactive loop of pdfcat.  pdfcat: the PDFViewer of the loop, its
\* num_buffer and the zoom changes made; kpc: where the loop stands ("key" at
\* the top, "second" after a g, "quit" once left); kcall: the key read last
\* and the digit keys read at the top of the loop in a row up to it; kout:
\* what the handler of the key printed.
VARIABLES pdfcat, kpc, kcall, kout

kittyVars == <<pc, prev, call, result>>
threadVars == <<tpc, tcall, frames, treturn>>
viewerVars == <<image_viewer, pdf_viewer, vcall, vret, zoom_moves>>
webVars == <<web_viewer, wcall, wret>>
animVars == <<animation, clock, acall, aret>>
fetchVars == <<fetcher, fcall, fret>>
playerVars == <<player, ppc, pcall, pret, wire>>
cliVars == <<pdfcat, kpc, kcall, kout>>
vars == <<kittyVars, threadVars, viewerVars, webVars, animVars, fetchVars, playerVars, cliVars>>

\* What the calls of one component leave alone: the other components.
notKitty == <<threadVars, viewerVars, webVars, animVars, fetchVars, playerVars, cliVars>>
notThread == <<kittyVars, viewerVars, webVars, animVars, fetchVars, playerVars, cliVars>>
notViewer == <<kittyVars, threadVars, webVars, animVars, fetchVars, playerVars, cliVars>>
notWeb == <<kittyVars, threadVars, viewerVars, animVars, fetchVars, playerVars, cliVars>>
notAnim == <<kittyVars, threadVars, viewerVars, webVars, fetchVars, playerVars, cliVars>>
notFetch == <<kittyVars, threadVars, viewerVars, webVars, animVars, playerVars, cliVars>>
notPlayer == <<kittyVars, threadVars, viewerVars, webVars, animVars, fetchVars, cliVars>>
notCli == <<kittyVars, threadVars, viewerVars, webVars, animVars, fetchVars, playerVars>>

\* ------------------------------------------------------------- constants

CHUNK_SIZE == 4096

ESC == "ESC"

\* ---------------------------------------------------------------- bounds

\* Largest number of whole chunks an encoded image is built around.
MaxFullChunks == 3
\* PNG files reach from three bytes (one base64 group) below a whole number
\* of chunks to MaxOver bytes above it.
MaxOver == 2
\* PNG bodies of the small images: 0..MaxSmallBody bytes after the signature.
MaxSmallBody == 1

Seeds == {1, 7}

Min(a, b) == IF a <= b THEN a ELSE b

\* ------------------------------------------------------- python built-ins

\* "".join(parts)
RECURSIVE StrJoin(_)
StrJoin(parts) ==
    IF parts = <<>> THEN <<>> ELSE Head(parts) \o StrJoin(Tail(parts))

\* sep.join(parts)
RECURSIVE SepJoin(_, _)
SepJoin(sep, parts) ==
    IF parts = <<>> THEN <<>>
    ELSE IF Len(parts) = 1 THEN Head(parts)
    ELSE Head(parts) \o sep \o SepJoin(sep, Tail(parts))

Digits == <<"0", "1", "2", "3", "4", "5", "6", "7", "8", "9">>

\* str(n) of a non-negative int
RECURSIVE IntToStr(_)
IntToStr(n) ==
    IF n < 10 THEN <<Digits[n + 1]>>
    ELSE IntToStr(n \div 10) \o <<Digits[(n % 10) + 1]>>

B64_ALPHABET ==
    << "A", "B", "C", "D", "E", "F", "G", "H", "I", "J", "K", "L", "M",
       "N", "O", "P", "Q", "R", "S", "T", "U", "V", "W", "X", "Y", "Z",
       "a", "b", "c", "d", "e", "f", "g", "h", "i", "j", "k", "l", "m",
       "n", "o", "p", "q", "r", "s", "t", "u", "v", "w", "x", "y", "z",
       "0", "1", "2", "3", "4", "5", "6", "7", "8", "9", "+", "/" >>

Pow64 == <<262144, 4096, 64, 1>>

\* base64.b64encode(data).decode("ascii"): three bytes make four characters;
\* a last group of one or two bytes is filled up with "=".
b64encode(data) ==
    LET n == Len(data)
        byte(i) == IF i <= n THEN data[i] ELSE 0
        char(j) ==
            LET g == (j - 1) \div 4
                k == (j - 1) % 4
                v == byte(3 * g + 1) * 65536 + byte(3 * g + 2) * 256
                        + byte(3 * g + 3)
            IN  B64_ALPHABET[((v \div Pow64[k + 1]) % 64) + 1]
        \* characters that carry data: 4 for 3 bytes, 2 for 1, 3 for 2
        coded == 4 * (n \div 3) + (IF n % 3 = 0 THEN 0 ELSE (n % 3) + 1)
    IN  [j \in 1..coded |-> char(j)]
        \o (IF n % 3 = 1 THEN <<"=", "=">>
            ELSE IF n % 3 = 2 THEN <<"=">> ELSE <<>>)

\* ------------------------------------------------------------------ images

PNG_SIGNATURE == <<137, 80, 78, 71, 13, 10, 26, 10>>

\* Bytes in one chunk's worth of base64 text.
ChunkBytes == (CHUNK_SIZE \div 4) * 3

\* The sizes of the PNG bodies: small ones, and ones whose encoding ends
\* around a whole number of chunks.
BodySizes ==
    (0..MaxSmallBody)
    \cup { k * ChunkBytes + d - 8 : k \in 1..MaxFullChunks,
                                    d \in (-3)..MaxOver }

\* A PIL image, known by the PNG file Pillow writes for it.
Images == [body : BodySizes, seed : Seeds]

\* image.save(buffer, format="PNG"); buffer.seek(0); buffer.read()
image_save(image) ==
    PNG_SIGNATURE
    \o [i \in 1..image.body |-> (image.seed * i + (i \div 5)) % 256]

encode_image(image) == b64encode(image_save(image))

\* encode_image over the images of the model, evaluated once.
EncodedTable == { <<image, encode_image(image)>> : image \in Images }
EncodedOf(image) == (CHOOSE entry \in EncodedTable : entry[1] = image)[2]

\* ---------------------------------------------------------------- encoder

\* _serialize_command without the closing ESC \.
SerializeUnterminated(control, payload) ==
    <<ESC, "_", "G">>
    \o SepJoin(<<",">>,
               [n \in 1..Len(control) |->
                   control[n][1] \o <<"=">> \o control[n][2]])
    \o <<";">> \o payload

\* _serialize_command leaving the ";" out when there is no payload.
SerializeBareEmpty(control, payload) ==
    <<ESC, "_", "G">>
    \o SepJoin(<<",">>,
               [n \in 1..Len(control) |->
                   control[n][1] \o <<"=">> \o control[n][2]])
    \o (IF payload = <<>> THEN <<>> ELSE <<";">>) \o payload
    \o <<ESC, "\\">>

_serialize_command(control, payload) ==
    LET control_str ==
            SepJoin(<<",">>,
                    [n \in 1..Len(control) |->
                        control[n][1] \o <<"=">> \o control[n][2]])
    IN  <<ESC, "_", "G">> \o control_str \o <<";">> \o payload
            \o <<ESC, "\\">>

\* The test of the path with < for <=.
IsSmallStrict(encoded) == Len(encoded) < CHUNK_SIZE

\* len(encoded) <= CHUNK_SIZE: the image goes in one command.
IsSmall(encoded) == Len(encoded) <= CHUNK_SIZE

\* The chunks cut as encoded[i : i + CHUNK_SIZE - 1]: one character short.
ChunksShort(encoded) ==
    [n \in 1..((Len(encoded) + CHUNK_SIZE - 1) \div CHUNK_SIZE) |->
        SubSeq(encoded, (n - 1) * CHUNK_SIZE + 1,
               Min(n * CHUNK_SIZE - 1, Len(encoded)))]

\* The chunks cut as encoded[i : i + CHUNK_SIZE + 1]: one character long.
ChunksLong(encoded) ==
    [n \in 1..((Len(encoded) + CHUNK_SIZE - 1) \div CHUNK_SIZE) |->
        SubSeq(encoded, (n - 1) * CHUNK_SIZE + 1,
               Min(n * CHUNK_SIZE + 1, Len(encoded)))]

\* The chunks of display_image: encoded[i : i + CHUNK_SIZE] for
\* i in range(0, len(encoded), CHUNK_SIZE).
Chunks(encoded) ==
    [n \in 1..((Len(encoded) + CHUNK_SIZE - 1) \div CHUNK_SIZE) |->
        SubSeq(encoded, (n - 1) * CHUNK_SIZE + 1,
               Min(n * CHUNK_SIZE, Len(encoded)))]

\* The delete command with the scope clear_screen leaves out.
DeleteControlNoScope == << <<(<<"a">>), (<<"d">>)>> >>

\* {"a": "d", "d": "A"}
DeleteControl == << <<(<<"a">>), (<<"d">>)>>, <<(<<"d">>), (<<"A">>)>> >>

\* The one-command control with a=t (store only) for a=T.
SmallControlStoreOnly ==
    << <<(<<"a">>), (<<"t">>)>>, <<(<<"f">>), (<<"1", "0", "0">>)>> >>

\* {"a": "T", "f": "100"}
SmallControl ==
    << <<(<<"a">>), (<<"T">>)>>, <<(<<"f">>), (<<"1", "0", "0">>)>> >>

\* The chunk control with q=2 on the last chunk as well.
ChunkControlQuietLast(i, nchunks) ==
    (IF i = 0
     THEN << <<(<<"a">>), (<<"t">>)>>, <<(<<"f">>), (<<"1", "0", "0">>)>>,
             <<(<<"i">>), (<<"1">>)>>, <<(<<"q">>), (<<"2">>)>> >>
     ELSE <<>>)
    \o (IF i = nchunks - 1
        THEN << <<(<<"m">>), (<<"0">>)>>, <<(<<"q">>), (<<"2">>)>> >>
        ELSE << <<(<<"m">>), (<<"1">>)>> >>)

\* The chunk control with the m key set before the keys of the first chunk.
ChunkControlMoreFirst(i, nchunks) ==
    (IF i = nchunks - 1
     THEN << <<(<<"m">>), (<<"0">>)>> >>
     ELSE << <<(<<"m">>), (<<"1">>)>> >>)
    \o (IF i = 0
        THEN << <<(<<"a">>), (<<"t">>)>>, <<(<<"f">>), (<<"1", "0", "0">>)>>,
                <<(<<"i">>), (<<"1">>)>>, <<(<<"q">>), (<<"2">>)>> >>
        ELSE <<>>)

\* The control dict of chunk i (counted from 0) of nchunks.
ChunkControl(i, nchunks) ==
    (IF i = 0
     THEN << <<(<<"a">>), (<<"t">>)>>, <<(<<"f">>), (<<"1", "0", "0">>)>>,
             <<(<<"i">>), (<<"1">>)>>, <<(<<"q">>), (<<"2">>)>> >>
     ELSE <<>>)
    \o (IF i = nchunks - 1
        THEN << <<(<<"m">>), (<<"0">>)>> >>
        ELSE << <<(<<"m">>), (<<"1">>)>> >>)

\* The placement naming another image than the one transmitted.
PlaceControlOtherId ==
    << <<(<<"a">>), (<<"p">>)>>, <<(<<"i">>), (<<"2">>)>>,
       <<(<<"q">>), (<<"2">>)>> >>

\* {"a": "p", "i": "1", "q": "2"}
PlaceControl ==
    << <<(<<"a">>), (<<"p">>)>>, <<(<<"i">>), (<<"1">>)>>,
       <<(<<"q">>), (<<"2">>)>> >>

\* The delete_previous test inverted.
DeletePreviousInverted(delete_previous) ==
    IF ~delete_previous
    THEN << _serialize_command(DeleteControl, <<>>) >>
    ELSE <<>>

\* The commands list after the delete_previous test.
DeletePrevious(delete_previous) ==
    IF delete_previous
    THEN << _serialize_command(DeleteControl, <<>>) >>
    ELSE <<>>

\* The commands appended for the image data, on either path.
SendImage(encoded) ==
    IF IsSmall(encoded)
    THEN << _serialize_command(SmallControl, encoded) >>
    ELSE LET chunks == Chunks(encoded)
         IN  [n \in 1..Len(chunks) |->
                 _serialize_command(ChunkControl(n - 1, Len(chunks)),
                                    chunks[n])]
             \o << _serialize_command(PlaceControl, <<>>) >>

display_image(image, delete_previous) ==
    LET encoded == EncodedOf(image)
    IN  StrJoin(DeletePrevious(delete_previous) \o SendImage(encoded))

create_display_command(encoded_data, action, format, delete) ==
    _serialize_command(
        << <<(<<"a">>), action>>, <<(<<"f">>), IntToStr(format)>> >>
        \o (IF delete THEN << <<(<<"d">>), (<<"A">>)>> >> ELSE <<>>),
        encoded_data)

\* clear_screen built by _serialize_command like the delete of display_image.
ClearScreenSerialized == _serialize_command(DeleteControl, <<>>)

clear_screen == <<ESC, "_", "G", "a", "=", "d", ESC, "\\">>

\* ---------------------------------------------------------------- actions

\* The arguments create_display_command is called with.
EncodedData ==
    { <<>>, <<"d", "G", "V", "z", "d", "A", "=", "=">>,
      <<"A", "A", "E", "C">> }
Actions == { <<"t">>, <<"T">> }
Formats == {100, 32}

NoCall == [op |-> "none"]

\* No call is in progress.
KittyInit ==
    /\ pc = "idle"
    /\ prev = "none"
    /\ call = NoCall
    /\ result = <<>>

\* The locals of display_image before its first statement has run.
NoFrame == [encoded |-> <<>>, commands |-> <<>>, chunks |-> <<>>, i |-> 0]

\* The callers of ThreadSpec.
Threads == {1, 2}

\* No thread has called yet.
ThreadInit ==
    /\ tpc = [t \in Threads |-> "idle"]
    /\ tcall = [t \in Threads |-> NoCall]
    /\ frames = [t \in Threads |-> NoFrame]
    /\ treturn = [t \in Threads |-> <<>>]

\* A viewer that was not constructed.
Absent == [kind |-> "absent"]

\* No viewer has been constructed.
NoViewers ==
    /\ image_viewer = Absent
    /\ pdf_viewer = Absent
    /\ vcall = NoCall
    /\ vret = "None"
    /\ zoom_moves = 0

\* current_page is None.
NoPage == [none |-> TRUE]

\* WebViewer() with no initial_url.
WebInit ==
    /\ web_viewer = [history |-> <<>>, history_index |-> -1,
                     current_page |-> NoPage, current_url |-> "",
                     scroll_position |-> 0, selected_link |-> -1,
                     lines |-> 0]
    /\ wcall = NoCall
    /\ wret = "None"

\* No AnimationController has been constructed.
NoAnimation ==
    /\ animation = Absent
    /\ clock = 0
    /\ acall = NoCall
    /\ aret = "None"

\* No WebFetcher has been constructed.
NoFetcher ==
    /\ fetcher = Absent
    /\ fcall = NoCall
    /\ fret = "None"

\* No VideoPlayer has been constructed.
NoPlayer ==
    /\ player = Absent
    /\ ppc = "idle"
    /\ pcall = NoCall
    /\ pret = [none |-> TRUE]
    /\ wire = <<>>

\* pdfcat is not running.
NoCli ==
    /\ pdfcat = Absent
    /\ kpc = "quit"
    /\ kcall = NoCall
    /\ kout = "nothing"

Init ==
    /\ KittyInit
    /\ NoCli
    /\ NoPlayer
    /\ NoFetcher
    /\ NoAnimation
    /\ ThreadInit
    /\ NoViewers
    /\ WebInit

EncodeImage ==
    \E image \in Images :
        /\ pc = "idle"
        /\ pc' = "returned"
        /\ call' = [op |-> "encode_image", image |-> image]
        /\ result' = EncodedOf(image)
        /\ UNCHANGED <<prev, notKitty>>

\* delete_previous: bool = True
DeletePreviousDefault == TRUE

\* passed: the delete_previous argument as the caller wrote it, or "default"
\* when the caller left it out.
DisplayImage ==
    \E image \in Images, passed \in {"default", "True", "False"} :
        LET delete_previous == IF passed = "default"
                               THEN DeletePreviousDefault
                               ELSE passed = "True"
        IN  /\ pc = "idle"
            /\ pc' = "returned"
            /\ call' = [op |-> "display_image", image |-> image,
                        passed |-> passed,
                        delete_previous |-> delete_previous]
            /\ result' = display_image(image, delete_previous)
            /\ UNCHANGED <<prev, notKitty>>

CreateDisplayCommand ==
    \E encoded_data \in EncodedData, action \in Actions,
       format \in Formats, delete \in BOOLEAN :
        /\ pc = "idle"
        /\ pc' = "returned"
        /\ call' = [op |-> "create_display_command",
                    encoded_data |-> encoded_data, action |-> action,
                    format |-> format, delete |-> delete]
        /\ result' = create_display_command(encoded_data, action, format,
                                            delete)
        /\ UNCHANGED <<prev, notKitty>>

ClearScreen ==
    /\ pc = "idle"
    /\ pc' = "returned"
    /\ call' = [op |-> "clear_screen"]
    /\ result' = clear_screen
    /\ UNCHANGED <<prev, notKitty>>

\* The caller takes the returned string; the encoder keeps nothing of it.
Consume ==
    /\ pc = "returned"
    /\ pc' = "idle"
    /\ prev' = call.op
    /\ call' = NoCall
    /\ result' = <<>>
    /\ UNCHANGED notKitty

Next ==
    \/ EncodeImage
    \/ DisplayImage
    \/ CreateDisplayCommand
    \/ ClearScreen
    \/ Consume

Spec == Init /\ [][Next]_vars

\* ------------------------------------------------------ concurrent callers

\* An image Pillow cannot store as PNG: image.save raises on it.
Unwritable == { [body |-> 0, seed |-> 1, mode |-> "CMYK"] }
CanWrite(image) == "mode" \notin DOMAIN image

\* The images of the concurrent callers: one-command ones and chunked ones.
ThreadImages == {image \in Images : image.body \in {0, ChunkBytes - 7}}

\* All calls using one set of locals, as attributes of the instance would be.
FrameShared(thread) == 1

\* The frame a thread's call runs in: every call has its own locals.
FrameOf(thread) == thread

\* encode_image: the string it returns, or the error image.save raised.
EncodeOutcome(image) ==
    IF CanWrite(image)
    THEN [raised |-> FALSE, value |-> EncodedOf(image)]
    ELSE [raised |-> TRUE, value |-> <<>>]

\* The error of encode_image caught and an empty payload sent on.
AfterEncodeSwallowed(outcome) == "init"

\* Where display_image goes after line 72: no handler surrounds the call.
AfterEncode(outcome) == IF outcome.raised THEN "raised" ELSE "init"

CallDisplayImage(t) ==
    \E image \in ThreadImages \cup Unwritable, delete_previous \in BOOLEAN :
        /\ tpc[t] = "idle"
        /\ tpc' = [tpc EXCEPT ![t] = "encode"]
        /\ tcall' = [tcall EXCEPT ![t] =
                        [op |-> "display_image", image |-> image,
                         delete_previous |-> delete_previous]]
        /\ frames' = [frames EXCEPT ![FrameOf(t)] = NoFrame]
        /\ UNCHANGED <<treturn, notThread>>

\* encoded = self.encode_image(image)
StepEncode(t) ==
    LET outcome == EncodeOutcome(tcall[t].image)
    IN  /\ tpc[t] = "encode"
        /\ tpc' = [tpc EXCEPT ![t] = AfterEncode(outcome)]
        /\ frames' = [frames EXCEPT ![FrameOf(t)].encoded = outcome.value]
        /\ UNCHANGED <<tcall, treturn, notThread>>

\* commands = []
StepInit(t) ==
    /\ tpc[t] = "init"
    /\ tpc' = [tpc EXCEPT ![t] = "delete"]
    /\ frames' = [frames EXCEPT ![FrameOf(t)].commands = <<>>]
    /\ UNCHANGED <<tcall, treturn, notThread>>

\* if delete_previous: commands.append(...)
StepDelete(t) ==
    /\ tpc[t] = "delete"
    /\ tpc' = [tpc EXCEPT ![t] = "branch"]
    /\ frames' = [frames EXCEPT ![FrameOf(t)].commands =
                      @ \o DeletePrevious(tcall[t].delete_previous)]
    /\ UNCHANGED <<tcall, treturn, notThread>>

\* if len(encoded) <= CHUNK_SIZE: one command; else: the list of chunks.
StepBranch(t) ==
    LET frame == frames[FrameOf(t)]
    IN  /\ tpc[t] = "branch"
        /\ IF IsSmall(frame.encoded)
           THEN /\ tpc' = [tpc EXCEPT ![t] = "join"]
                /\ frames' = [frames EXCEPT ![FrameOf(t)].commands =
                                  Append(@, _serialize_command(SmallControl,
                                                               frame.encoded))]
           ELSE /\ tpc' = [tpc EXCEPT ![t] = "chunk"]
                /\ frames' = [frames EXCEPT
                                  ![FrameOf(t)].chunks = Chunks(frame.encoded),
                                  ![FrameOf(t)].i = 0]
        /\ UNCHANGED <<tcall, treturn, notThread>>

\* One turn of for i, chunk in enumerate(chunks).
StepChunk(t) ==
    LET frame == frames[FrameOf(t)]
    IN  /\ tpc[t] = "chunk"
        /\ frame.i < Len(frame.chunks)
        /\ frames' = [frames EXCEPT
                          ![FrameOf(t)].commands =
                              Append(@, _serialize_command(
                                            ChunkControl(frame.i,
                                                         Len(frame.chunks)),
                                            frame.chunks[frame.i + 1])),
                          ![FrameOf(t)].i = frame.i + 1]
        /\ UNCHANGED <<tpc, tcall, treturn, notThread>>

\* After the loop: commands.append of the a=p command.
StepPlace(t) ==
    LET frame == frames[FrameOf(t)]
    IN  /\ tpc[t] = "chunk"
        /\ frame.i >= Len(frame.chunks)
        /\ tpc' = [tpc EXCEPT ![t] = "join"]
        /\ frames' = [frames EXCEPT ![FrameOf(t)].commands =
                          Append(@, _serialize_command(PlaceControl, <<>>))]
        /\ UNCHANGED <<tcall, treturn, notThread>>

\* return "".join(commands)
StepJoin(t) ==
    /\ tpc[t] = "join"
    /\ tpc' = [tpc EXCEPT ![t] = "done"]
    /\ treturn' = [treturn EXCEPT ![t] = StrJoin(frames[FrameOf(t)].commands)]
    /\ UNCHANGED <<tcall, frames, notThread>>

\* encode_image called on its own.
RunEncodeImage(t) ==
    \E image \in ThreadImages \cup Unwritable :
        LET outcome == EncodeOutcome(image)
        IN  /\ tpc[t] = "idle"
            /\ tpc' = [tpc EXCEPT ![t] =
                           IF outcome.raised THEN "raised" ELSE "done"]
            /\ tcall' = [tcall EXCEPT ![t] =
                            [op |-> "encode_image", image |-> image]]
            /\ treturn' = [treturn EXCEPT ![t] = outcome.value]
            /\ UNCHANGED <<frames, notThread>>

RunClearScreen(t) ==
    /\ tpc[t] = "idle"
    /\ tpc' = [tpc EXCEPT ![t] = "done"]
    /\ tcall' = [tcall EXCEPT ![t] = [op |-> "clear_screen"]]
    /\ treturn' = [treturn EXCEPT ![t] = clear_screen]
    /\ UNCHANGED <<frames, notThread>>

\* The caller takes the result or the error; the frame is gone.
Leave(t) ==
    /\ tpc[t] \in {"done", "raised"}
    /\ tpc' = [tpc EXCEPT ![t] = "idle"]
    /\ tcall' = [tcall EXCEPT ![t] = NoCall]
    /\ treturn' = [treturn EXCEPT ![t] = <<>>]
    /\ frames' = [frames EXCEPT ![FrameOf(t)] = NoFrame]
    /\ UNCHANGED notThread

ThreadNext ==
    \E t \in Threads :
        \/ CallDisplayImage(t)
        \/ StepEncode(t)
        \/ StepInit(t)
        \/ StepDelete(t)
        \/ StepBranch(t)
        \/ StepChunk(t)
        \/ StepPlace(t)
        \/ StepJoin(t)
        \/ RunEncodeImage(t)
        \/ RunClearScreen(t)
        \/ Leave(t)

ThreadSpec == Init /\ [][ThreadNext]_vars

\* ------------------------------------------------------------------ floats

\* The limbs of a float count in base 2^20.
LimbBase == 1048576

\* float("nan"): every comparison with it is false.
NaN == <<-1, 0, 0>>
IsNaN(x) == x[1] < 0

\* x < y and x <= y of Python floats.
FLess(x, y) ==
    /\ ~IsNaN(x)
    /\ ~IsNaN(y)
    /\ \/ x[1] < y[1]
       \/ x[1] = y[1] /\ x[2] < y[2]
       \/ x[1] = y[1] /\ x[2] = y[2] /\ x[3] < y[3]
FLessEq(x, y) == ~IsNaN(x) /\ ~IsNaN(y) /\ (x = y \/ FLess(x, y))

\* The exact sum and the exact difference (x >= y) of two values.
ExactSum(x, y) ==
    LET lo == x[3] + y[3]
        mid == x[2] + y[2] + (lo \div LimbBase)
    IN  <<x[1] + y[1] + (mid \div LimbBase), mid % LimbBase, lo % LimbBase>>
ExactDiff(x, y) ==
    LET lo == x[3] - y[3]
        mid == x[2] - y[2] + (lo \div LimbBase)
    IN  <<x[1] - y[1] + (mid \div LimbBase), mid % LimbBase, lo % LimbBase>>

\* The spacing of the doubles around n, in units of 2^-56: 53 significant
\* bits, so 2^-52 from 1.0 to 2.0 and half or double that in the next
\* binades.
Ulp(n) ==
    IF n[1] >= 262144 THEN 64
    ELSE IF n[1] >= 131072 THEN 32
    ELSE IF n[1] >= 65536 THEN 16
    ELSE IF n[1] >= 32768 THEN 8
    ELSE IF n[1] >= 16384 THEN 4
    ELSE IF n[1] >= 8192 THEN 2
    ELSE 1

\* n rounded to the nearest double, a tie going to the even significand.
RoundToDouble(n) ==
    LET ulp == Ulp(n)
        rest == n[3] % ulp
        down == <<n[1], n[2], n[3] - rest>>
        odd == ((n[3] - rest) \div ulp) % 2 = 1
    IN  IF rest = 0 THEN n
        ELSE IF 2 * rest > ulp \/ (2 * rest = ulp /\ odd)
        THEN ExactSum(down, <<0, 0, ulp>>)
        ELSE down

\* x + y and x - y of Python floats.
FAdd(x, y) == RoundToDouble(ExactSum(x, y))
FSub(x, y) == RoundToDouble(ExactDiff(x, y))

\* min(x, y) and max(x, y) of Python: the first argument unless the second
\* is smaller (larger).
PyMin(x, y) == IF FLess(y, x) THEN y ELSE x
PyMax(x, y) == IF FLess(x, y) THEN y ELSE x

\* ----------------------------------------------------------------- viewers

\* ImageViewer: 0.05, 0.10, 0.25, 4.0
ZOOM_STEP_SMALL == <<3276, 838860, 838861>>
ZOOM_STEP_LARGE == <<6553, 629145, 629146>>
MIN_ZOOM == <<16384, 0, 0>>
MAX_ZOOM == <<262144, 0, 0>>

\* PDFViewer: 0.05, 0.10, 0.25, 4.0
ZOOM_STEP == <<3276, 838860, 838861>>
PDF_ZOOM_STEP_LARGE == <<6553, 629145, 629146>>
PDF_MIN_ZOOM == <<16384, 0, 0>>
PDF_MAX_ZOOM == <<262144, 0, 0>>

\* 1.0, the zoom of reset_zoom and the default initial_zoom.
ONE == <<65536, 0, 0>>

\* Most files of an ImageViewer, most pages of a PDFViewer.
MaxFiles == 3
MaxPages == 3
\* Most changes of the zoom by zoom_in and zoom_out in one run.
MaxZoomMoves == 4

\* initial_zoom: 0.25, 0.35, 1.0, 3.95, 4.0
InitialZooms ==
    { MIN_ZOOM, <<22937, 629145, 629144>>, ONE,
      <<258867, 209715, 209728>>, MAX_ZOOM }

\* The zoom argument of set_zoom: 0.1, 0.25, 1.0, 2.5, 4.0, 10.0, nan
ZoomArgs ==
    { <<6553, 629145, 629146>>, <<16384, 0, 0>>, ONE, <<163840, 0, 0>>,
      <<262144, 0, 0>>, <<655360, 0, 0>>, NaN }

\* The file_num argument of go_to_file and the page_num of go_to_page.
FileNums == (-1)..(MaxFiles + 2)
PageNums == (-1)..(MaxPages + 2)

Max(a, b) == IF a >= b THEN a ELSE b

\* go_to_file's index without the lower clamp.
ClampFileNoFloor(file_num, total_files) == Min(file_num - 1, total_files - 1)

\* index = max(0, min(file_num - 1, self.total_files - 1))
ClampFile(file_num, total_files) ==
    Max(0, Min(file_num - 1, total_files - 1))

\* set_zoom storing its argument as given.
ClampZoomNot(zoom) == zoom

\* max(self.MIN_ZOOM, min(zoom, self.MAX_ZOOM)) of ImageViewer.set_zoom
ClampZoom(zoom) == PyMax(MIN_ZOOM, PyMin(zoom, MAX_ZOOM))

\* max(self.MIN_ZOOM, min(zoom, self.MAX_ZOOM)) of PDFViewer.set_zoom
PdfClampZoom(zoom) == PyMax(PDF_MIN_ZOOM, PyMin(zoom, PDF_MAX_ZOOM))

\* go_to_page's test taking page 0 for a page.
PageOutOfRangeFromZero(page_num, total_pages) ==
    page_num < 0 \/ page_num > total_pages

\* if page_num < 1 or page_num > self.total_pages: raise ValueError
PageOutOfRange(page_num, total_pages) ==
    page_num < 1 \/ page_num > total_pages

\* ImageViewer(image_paths, initial_zoom) or PDFViewer(pdf_path,
\* initial_zoom) has been constructed.
ViewerInit ==
    /\ KittyInit
    /\ NoCli
    /\ NoPlayer
    /\ NoFetcher
    /\ NoAnimation
    /\ ThreadInit
    /\ WebInit
    /\ vcall = NoCall
    /\ vret = "None"
    /\ zoom_moves = 0
    /\ \E initial_zoom \in InitialZooms :
           \/ /\ \E total_files \in 1..MaxFiles :
                     image_viewer = [kind |-> "ImageViewer",
                                     current_file_index |-> 0,
                                     zoom_level |-> initial_zoom,
                                     total_files |-> total_files,
                                     renderer |-> 0]
              /\ pdf_viewer = Absent
           \/ /\ \E total_pages \in 1..MaxPages :
                     pdf_viewer = [kind |-> "PDFViewer",
                                   current_page |-> 0,
                                   zoom_level |-> initial_zoom,
                                   total_pages |-> total_pages]
              /\ image_viewer = Absent

IsImage == image_viewer.kind = "ImageViewer"
IsPdf == pdf_viewer.kind = "PDFViewer"

\* _load_current_file: a renderer on the file at current_file_index.
LoadCurrentFile(viewer) == [viewer EXCEPT !.renderer = viewer.current_file_index]

ImageViewer_next_file ==
    /\ IsImage
    /\ vcall' = [op |-> "next_file"]
    /\ IF image_viewer.current_file_index < image_viewer.total_files - 1
       THEN /\ image_viewer' =
                   LoadCurrentFile([image_viewer EXCEPT
                       !.current_file_index = @ + 1])
            /\ vret' = "True"
       ELSE /\ vret' = "False"
            /\ UNCHANGED image_viewer
    /\ UNCHANGED <<pdf_viewer, zoom_moves, notViewer>>

ImageViewer_previous_file ==
    /\ IsImage
    /\ vcall' = [op |-> "previous_file"]
    /\ IF image_viewer.current_file_index > 0
       THEN /\ image_viewer' =
                   LoadCurrentFile([image_viewer EXCEPT
                       !.current_file_index = @ - 1])
            /\ vret' = "True"
       ELSE /\ vret' = "False"
            /\ UNCHANGED image_viewer
    /\ UNCHANGED <<pdf_viewer, zoom_moves, notViewer>>

\* The body of go_to_file, which go_to_first_file and go_to_last_file call.
GoToFile(viewer, file_num) ==
    LET index == ClampFile(file_num, viewer.total_files)
    IN  IF index # viewer.current_file_index
        THEN LoadCurrentFile([viewer EXCEPT !.current_file_index = index])
        ELSE viewer

ImageViewer_go_to_file ==
    \E file_num \in FileNums :
        /\ IsImage
        /\ vcall' = [op |-> "go_to_file", arg |-> file_num]
        /\ image_viewer' = GoToFile(image_viewer, file_num)
        /\ vret' = "None"
        /\ UNCHANGED <<pdf_viewer, zoom_moves, notViewer>>

ImageViewer_go_to_first_file ==
    /\ IsImage
    /\ vcall' = [op |-> "go_to_first_file"]
    /\ image_viewer' = GoToFile(image_viewer, 1)
    /\ vret' = "None"
    /\ UNCHANGED <<pdf_viewer, zoom_moves, notViewer>>

ImageViewer_go_to_last_file ==
    /\ IsImage
    /\ vcall' = [op |-> "go_to_last_file"]
    /\ image_viewer' = GoToFile(image_viewer, image_viewer.total_files)
    /\ vret' = "None"
    /\ UNCHANGED <<pdf_viewer, zoom_moves, notViewer>>

ImageViewer_zoom_in ==
    \E large \in BOOLEAN :
        LET step == IF large THEN ZOOM_STEP_LARGE ELSE ZOOM_STEP_SMALL
            new_zoom == FAdd(image_viewer.zoom_level, step)
        IN  /\ IsImage
            /\ vcall' = [op |-> "zoom_in", arg |-> large]
            /\ IF FLessEq(new_zoom, MAX_ZOOM)
               THEN /\ zoom_moves < MaxZoomMoves
                    /\ zoom_moves' = zoom_moves + 1
                    /\ image_viewer' =
                           [image_viewer EXCEPT !.zoom_level = new_zoom]
                    /\ vret' = "True"
               ELSE /\ vret' = "False"
                    /\ UNCHANGED <<image_viewer, zoom_moves>>
            /\ UNCHANGED <<pdf_viewer, notViewer>>

ImageViewer_zoom_out ==
    \E large \in BOOLEAN :
        LET step == IF large THEN ZOOM_STEP_LARGE ELSE ZOOM_STEP_SMALL
            new_zoom == FSub(image_viewer.zoom_level, step)
        IN  /\ IsImage
            /\ vcall' = [op |-> "zoom_out", arg |-> large]
            /\ IF FLessEq(MIN_ZOOM, new_zoom)
               THEN /\ zoom_moves < MaxZoomMoves
                    /\ zoom_moves' = zoom_moves + 1
                    /\ image_viewer' =
                           [image_viewer EXCEPT !.zoom_level = new_zoom]
                    /\ vret' = "True"
               ELSE /\ vret' = "False"
                    /\ UNCHANGED <<image_viewer, zoom_moves>>
            /\ UNCHANGED <<pdf_viewer, notViewer>>

ImageViewer_set_zoom ==
    \E zoom \in ZoomArgs :
        /\ IsImage
        /\ vcall' = [op |-> "set_zoom", arg |-> zoom]
        /\ image_viewer' = [image_viewer EXCEPT !.zoom_level = ClampZoom(zoom)]
        /\ vret' = "None"
        /\ UNCHANGED <<pdf_viewer, zoom_moves, notViewer>>

ImageViewer_reset_zoom ==
    /\ IsImage
    /\ vcall' = [op |-> "reset_zoom"]
    /\ image_viewer' = [image_viewer EXCEPT !.zoom_level = ONE]
    /\ vret' = "None"
    /\ UNCHANGED <<pdf_viewer, zoom_moves, notViewer>>

PDFViewer_next_page ==
    /\ IsPdf
    /\ vcall' = [op |-> "next_page"]
    /\ IF pdf_viewer.current_page < pdf_viewer.total_pages - 1
       THEN /\ pdf_viewer' = [pdf_viewer EXCEPT !.current_page = @ + 1]
            /\ vret' = "True"
       ELSE /\ vret' = "False"
            /\ UNCHANGED pdf_viewer
    /\ UNCHANGED <<image_viewer, zoom_moves, notViewer>>

PDFViewer_previous_page ==
    /\ IsPdf
    /\ vcall' = [op |-> "previous_page"]
    /\ IF pdf_viewer.current_page > 0
       THEN /\ pdf_viewer' = [pdf_viewer EXCEPT !.current_page = @ - 1]
            /\ vret' = "True"
       ELSE /\ vret' = "False"
            /\ UNCHANGED pdf_viewer
    /\ UNCHANGED <<image_viewer, zoom_moves, notViewer>>

PDFViewer_zoom_in ==
    \E large \in BOOLEAN :
        LET step == IF large THEN PDF_ZOOM_STEP_LARGE ELSE ZOOM_STEP
            new_zoom == FAdd(pdf_viewer.zoom_level, step)
        IN  /\ IsPdf
            /\ vcall' = [op |-> "zoom_in", arg |-> large]
            /\ IF FLessEq(new_zoom, PDF_MAX_ZOOM)
               THEN /\ zoom_moves < MaxZoomMoves
                    /\ zoom_moves' = zoom_moves + 1
                    /\ pdf_viewer' = [pdf_viewer EXCEPT !.zoom_level = new_zoom]
                    /\ vret' = "True"
               ELSE /\ vret' = "False"
                    /\ UNCHANGED <<pdf_viewer, zoom_moves>>
            /\ UNCHANGED <<image_viewer, notViewer>>

PDFViewer_zoom_out ==
    \E large \in BOOLEAN :
        LET step == IF large THEN PDF_ZOOM_STEP_LARGE ELSE ZOOM_STEP
            new_zoom == FSub(pdf_viewer.zoom_level, step)
        IN  /\ IsPdf
            /\ vcall' = [op |-> "zoom_out", arg |-> large]
            /\ IF FLessEq(PDF_MIN_ZOOM, new_zoom)
               THEN /\ zoom_moves < MaxZoomMoves
                    /\ zoom_moves' = zoom_moves + 1
                    /\ pdf_viewer' = [pdf_viewer EXCEPT !.zoom_level = new_zoom]
                    /\ vret' = "True"
               ELSE /\ vret' = "False"
                    /\ UNCHANGED <<pdf_viewer, zoom_moves>>
            /\ UNCHANGED <<image_viewer, notViewer>>

PDFViewer_set_zoom ==
    \E zoom \in ZoomArgs :
        /\ IsPdf
        /\ vcall' = [op |-> "set_zoom", arg |-> zoom]
        /\ pdf_viewer' = [pdf_viewer EXCEPT !.zoom_level = PdfClampZoom(zoom)]
        /\ vret' = "None"
        /\ UNCHANGED <<image_viewer, zoom_moves, notViewer>>

PDFViewer_go_to_page ==
    \E page_num \in PageNums :
        /\ IsPdf
        /\ vcall' = [op |-> "go_to_page", arg |-> page_num]
        /\ IF PageOutOfRange(page_num, pdf_viewer.total_pages)
           THEN /\ vret' = "ValueError"
                /\ UNCHANGED pdf_viewer
           ELSE /\ pdf_viewer' = [pdf_viewer EXCEPT
                                     !.current_page = page_num - 1]
                /\ vret' = "None"
        /\ UNCHANGED <<image_viewer, zoom_moves, notViewer>>

ViewerNext ==
    \/ ImageViewer_next_file
    \/ ImageViewer_previous_file
    \/ ImageViewer_go_to_file
    \/ ImageViewer_go_to_first_file
    \/ ImageViewer_go_to_last_file
    \/ ImageViewer_zoom_in
    \/ ImageViewer_zoom_out
    \/ ImageViewer_set_zoom
    \/ ImageViewer_reset_zoom
    \/ PDFViewer_next_page
    \/ PDFViewer_previous_page
    \/ PDFViewer_zoom_in
    \/ PDFViewer_zoom_out
    \/ PDFViewer_set_zoom
    \/ PDFViewer_go_to_page

ViewerSpec == ViewerInit /\ [][ViewerNext]_vars

\* ---------------------------------------------------------------- browser

SCROLL_HALF_PAGE == 15
SCROLL_FULL_PAGE == 30

\* Most entries the history grows to.
MaxHistory == 3

\* The URLs a caller asks for: two pages, an address that redirects to the
\* first page, and a document that is not HTML.
Urls == {"u1", "u2", "old", "doc"}

\* str(response.url): the address the response came from.
FinalUrl(url) == IF url = "old" THEN "u1" ELSE url

\* "text/html" in content_type
IsHtml(url) == url # "doc"

\* parse(result.text, result.url): the lines of the page's text and the
\* URLs of its links.
Parsed(url) ==
    IF url = "u1"
    THEN [url |-> "u1", nlines |-> 45, links |-> <<"u2", "old">>]
    ELSE [url |-> url, nlines |-> 1, links |-> <<>>]

\* The page at url once its server has replaced it by a page of one line.
Changed(url) == [url |-> url, nlines |-> 1, links |-> <<>>]

\* What the server may send for url: the content changes between fetches.
Pages(url) == {Parsed(url), Changed(url)}

\* What self._fetcher.fetch(url) followed by the parse can do: raise, or
\* give the response.  The network may fail at any fetch.
FetchOutcomes(url) ==
    { [raised |-> TRUE, url |-> url, is_html |-> FALSE, page |-> NoPage] }
    \cup { [raised |-> FALSE, url |-> FinalUrl(url), is_html |-> IsHtml(url),
            page |-> page] : page \in Pages(FinalUrl(url)) }

\* HistoryEntry(url=url)
HistoryEntry(url) == [url |-> url, scroll_position |-> 0]

\* list[index] of Python: a negative index counts from the end.
PyIndex(list, index) ==
    IF index < 0 THEN list[Len(list) + index + 1] ELSE list[index + 1]

\* The lines argument of scroll_down and scroll_up.
ScrollArgs == {SCROLL_HALF_PAGE, SCROLL_FULL_PAGE}

\* The line argument of scroll_to_line.
LineArgs == {-1, SCROLL_HALF_PAGE, 100}

\* The page of a response shown from the top or from a remembered position.
Show(viewer, outcome, scroll_position) ==
    [viewer EXCEPT !.current_page = outcome.page,
                   !.current_url = outcome.url,
                   !.scroll_position = scroll_position,
                   !.selected_link = -1,
                   !.lines = outcome.page.nlines]

\* The history index, the current URL and the history's URLs of a viewer.
Position(viewer) ==
    [history_index |-> viewer.history_index,
     current_url |-> viewer.current_url,
     urls |-> [n \in 1..Len(viewer.history) |-> viewer.history[n].url] \o <<>>]
NoPosition == [none |-> TRUE]

\* The entry a navigation leaves and the scroll position it leaves it at.
Leaving(viewer) ==
    [history_index |-> viewer.history_index,
     scroll_position |-> viewer.scroll_position]

\* The entry the call before left, when that call was a navigation that
\* returned True.
LeftBefore ==
    IF wcall.op \in {"load_url", "follow_selected_link", "go_back",
                     "go_forward"} /\ wret = "True"
    THEN wcall.left
    ELSE NoPosition

\* load_url keeping the entries after the current one.
KeepForward(history, history_index) == history

\* if self._history_index >= 0:
\*     self._history = self._history[: self._history_index + 1]
ClearForward(history, history_index) ==
    IF history_index >= 0
    THEN SubSeq(history, 1, history_index + 1)
    ELSE history

\* load_url pointing one past the last entry.
PastLastIndex(history) == Len(history)

\* self._history_index = len(self._history) - 1
LastIndex(history) == Len(history) - 1

\* load_url(url), called by record.op.
LoadUrl(url, record) ==
    \E outcome \in FetchOutcomes(url) :
        /\ wcall' = [record EXCEPT !.fetches = <<url>>]
        /\ IF outcome.raised \/ ~outcome.is_html
           THEN /\ wret' = "False"
                /\ UNCHANGED web_viewer
           ELSE LET shown == Show(web_viewer, outcome, 0)
                    kept == ClearForward(shown.history, shown.history_index)
                    history == Append(kept, HistoryEntry(outcome.url))
                IN  /\ Len(history) <= MaxHistory
                    /\ web_viewer' =
                           [shown EXCEPT !.history = history,
                                         !.history_index = LastIndex(history)]
                    /\ wret' = "True"

WebViewer_load_url ==
    \E url \in Urls :
        /\ LoadUrl(url, [op |-> "load_url", arg |-> url, fetches |-> <<>>,
                         before |-> Position(web_viewer),
                         left |-> Leaving(web_viewer)])
        /\ UNCHANGED notWeb

WebViewer_reload ==
    /\ IF web_viewer.current_url = ""
       THEN /\ wcall' = [op |-> "reload", fetches |-> <<>>]
            /\ wret' = "False"
            /\ UNCHANGED web_viewer
       ELSE \E outcome \in FetchOutcomes(web_viewer.current_url) :
                /\ wcall' = [op |-> "reload",
                             fetches |-> <<web_viewer.current_url>>]
                /\ IF outcome.raised
                   THEN /\ wret' = "False"
                        /\ UNCHANGED web_viewer
                   ELSE /\ web_viewer' =
                               [web_viewer EXCEPT
                                   !.current_page = outcome.page,
                                   !.lines = outcome.page.nlines,
                                   !.selected_link = -1]
                        /\ wret' = "True"
    /\ UNCHANGED notWeb

\* go_back turning back at the empty history only.
BackBlockedWhenEmpty(history_index) == history_index < 0

\* if self._history_index <= 0: return False
BackBlocked(history_index) == history_index <= 0

\* if self._history_index >= len(self._history) - 1: return False
ForwardBlocked(history_index, length) == history_index >= length - 1

\* self._history[self._history_index].scroll_position =
\* self._scroll_position
SaveScroll(viewer) ==
    LET at == IF viewer.history_index < 0
              THEN Len(viewer.history) + viewer.history_index + 1
              ELSE viewer.history_index + 1
    IN  [viewer EXCEPT !.history[at].scroll_position = viewer.scroll_position]

\* go_back: if self._history_index < len(self._history): save
SaveScrollBack(viewer) ==
    IF viewer.history_index < Len(viewer.history)
    THEN SaveScroll(viewer)
    ELSE viewer

\* go_forward: if self._history_index >= 0 and self._history_index <
\* len(self._history): save
SaveScrollForward(viewer) ==
    IF viewer.history_index >= 0
       /\ viewer.history_index < Len(viewer.history)
    THEN SaveScroll(viewer)
    ELSE viewer

\* The rest of go_back and go_forward once the index has moved: fetch the
\* entry and show it, or return False as the fetch raised.
Revisit(moved, record) ==
    \E outcome \in FetchOutcomes(PyIndex(moved.history,
                                         moved.history_index).url) :
        LET entry == PyIndex(moved.history, moved.history_index)
        IN  /\ wcall' = [record EXCEPT !.fetches = <<entry.url>>]
            /\ IF outcome.raised
               THEN /\ web_viewer' = moved
                    /\ wret' = "False"
               ELSE /\ web_viewer' = Show(moved, outcome,
                                          entry.scroll_position)
                    /\ wret' = "True"

WebViewer_go_back ==
    LET record == [op |-> "go_back", fetches |-> <<>>,
                   before |-> Position(web_viewer),
                   left |-> Leaving(web_viewer),
                   returns |-> LeftBefore]
    IN  /\ IF BackBlocked(web_viewer.history_index)
           THEN /\ wcall' = record
                /\ wret' = "False"
                /\ UNCHANGED web_viewer
           ELSE Revisit([SaveScrollBack(web_viewer) EXCEPT
                            !.history_index = @ - 1],
                        record)
        /\ UNCHANGED notWeb

\* back: where the viewer stood before the go_back this call follows, when
\* the call before it was a go_back that returned True.
WebViewer_go_forward ==
    LET record == [op |-> "go_forward", fetches |-> <<>>,
                   back |-> IF wcall.op = "go_back" /\ wret = "True"
                            THEN wcall.before
                            ELSE NoPosition,
                   left |-> Leaving(web_viewer),
                   returns |-> LeftBefore]
    IN  /\ IF ForwardBlocked(web_viewer.history_index,
                             Len(web_viewer.history))
           THEN /\ wcall' = record
                /\ wret' = "False"
                /\ UNCHANGED web_viewer
           ELSE Revisit([SaveScrollForward(web_viewer) EXCEPT
                            !.history_index = @ + 1],
                        record)
        /\ UNCHANGED notWeb

WebViewer_scroll_down ==
    \E lines \in ScrollArgs :
        LET max_scroll == Max(0, web_viewer.lines - SCROLL_FULL_PAGE)
            new_pos == Min(web_viewer.scroll_position + lines, max_scroll)
        IN  /\ wcall' = [op |-> "scroll_down", arg |-> lines,
                         fetches |-> <<>>]
            /\ IF new_pos # web_viewer.scroll_position
               THEN /\ web_viewer' =
                           [web_viewer EXCEPT !.scroll_position = new_pos]
                    /\ wret' = "True"
               ELSE /\ wret' = "False"
                    /\ UNCHANGED web_viewer
            /\ UNCHANGED notWeb

WebViewer_scroll_up ==
    \E lines \in ScrollArgs :
        LET new_pos == Max(0, web_viewer.scroll_position - lines)
        IN  /\ wcall' = [op |-> "scroll_up", arg |-> lines, fetches |-> <<>>]
            /\ IF new_pos # web_viewer.scroll_position
               THEN /\ web_viewer' =
                           [web_viewer EXCEPT !.scroll_position = new_pos]
                    /\ wret' = "True"
               ELSE /\ wret' = "False"
                    /\ UNCHANGED web_viewer
            /\ UNCHANGED notWeb

WebViewer_scroll_to_top ==
    /\ wcall' = [op |-> "scroll_to_top", fetches |-> <<>>]
    /\ web_viewer' = [web_viewer EXCEPT !.scroll_position = 0]
    /\ wret' = "None"
    /\ UNCHANGED notWeb

WebViewer_scroll_to_bottom ==
    LET max_scroll == Max(0, web_viewer.lines - SCROLL_FULL_PAGE)
    IN  /\ wcall' = [op |-> "scroll_to_bottom", fetches |-> <<>>]
        /\ web_viewer' = [web_viewer EXCEPT !.scroll_position = max_scroll]
        /\ wret' = "None"
        /\ UNCHANGED notWeb

WebViewer_scroll_to_line ==
    \E line \in LineArgs :
        LET max_scroll == Max(0, web_viewer.lines - SCROLL_FULL_PAGE)
        IN  /\ wcall' = [op |-> "scroll_to_line", arg |-> line,
                         fetches |-> <<>>]
            /\ web_viewer' = [web_viewer EXCEPT !.scroll_position =
                                 Max(0, Min(line, max_scroll))]
            /\ wret' = "None"
            /\ UNCHANGED notWeb

WebViewer_select_next_link ==
    /\ wcall' = [op |-> "select_next_link", fetches |-> <<>>]
    /\ IF web_viewer.current_page = NoPage
          \/ web_viewer.current_page.links = <<>>
       THEN /\ wret' = "False"
            /\ UNCHANGED web_viewer
       ELSE /\ web_viewer' =
                   [web_viewer EXCEPT !.selected_link =
                       (@ + 1) % Len(web_viewer.current_page.links)]
            /\ wret' = "True"
    /\ UNCHANGED notWeb

\* select_previous_link stepping below the first link.
PreviousLinkUnwrapped(selected_link, count) == selected_link - 1

\* if self._selected_link <= 0: self._selected_link = len(links) - 1
\* else: self._selected_link -= 1
PreviousLink(selected_link, count) ==
    IF selected_link <= 0 THEN count - 1 ELSE selected_link - 1

WebViewer_select_previous_link ==
    /\ wcall' = [op |-> "select_previous_link", fetches |-> <<>>]
    /\ IF web_viewer.current_page = NoPage
          \/ web_viewer.current_page.links = <<>>
       THEN /\ wret' = "False"
            /\ UNCHANGED web_viewer
       ELSE /\ web_viewer' =
                   [web_viewer EXCEPT !.selected_link =
                       PreviousLink(@, Len(web_viewer.current_page.links))]
            /\ wret' = "True"
    /\ UNCHANGED notWeb

\* get_link_by_index(index): the URL of the link, or None
get_link_by_index(viewer, index) ==
    IF viewer.current_page = NoPage \/ viewer.current_page.links = <<>>
    THEN "None"
    ELSE IF 0 <= index /\ index < Len(viewer.current_page.links)
    THEN viewer.current_page.links[index + 1]
    ELSE "None"

WebViewer_follow_selected_link ==
    LET record == [op |-> "follow_selected_link", fetches |-> <<>>,
                   before |-> Position(web_viewer),
                   left |-> Leaving(web_viewer)]
        link == get_link_by_index(web_viewer, web_viewer.selected_link)
    IN  /\ IF web_viewer.selected_link < 0 \/ link = "None"
           THEN /\ wcall' = record
                /\ wret' = "False"
                /\ UNCHANGED web_viewer
           ELSE LoadUrl(link, record)
        /\ UNCHANGED notWeb

WebNext ==
    \/ WebViewer_load_url
    \/ WebViewer_reload
    \/ WebViewer_go_back
    \/ WebViewer_go_forward
    \/ WebViewer_scroll_down
    \/ WebViewer_scroll_up
    \/ WebViewer_scroll_to_top
    \/ WebViewer_scroll_to_bottom
    \/ WebViewer_scroll_to_line
    \/ WebViewer_select_next_link
    \/ WebViewer_select_previous_link
    \/ WebViewer_follow_selected_link

WebSpec == Init /\ [][WebNext]_vars

\* --------------------------------------------------------------- animation

\* Most frames of a GIF.
MaxFrames == 3
\* The clock stops at MaxTicks ticks of TickMs milliseconds.
MaxTicks == 4
TickMs == 50

\* The durations of a frame, in milliseconds.
Durations == {50, 100}

\* The frame argument of seek_frame.
SeekArgs == (-1)..(MaxFrames + 1)

\* AnimationController(frame_count, frame_durations) with a duration for
\* every frame, as ImageViewer._load_current_file builds it.
AnimationInit ==
    /\ KittyInit
    /\ NoCli
    /\ NoPlayer
    /\ NoFetcher
    /\ ThreadInit
    /\ NoViewers
    /\ WebInit
    /\ clock = 0
    /\ acall = NoCall
    /\ aret = "None"
    /\ \E frame_count \in 1..MaxFrames :
           \E frame_durations \in [1..frame_count -> Durations] :
               animation = [kind |-> "AnimationController",
                            frame_count |-> frame_count,
                            frame_durations |-> frame_durations,
                            current_frame |-> 0,
                            is_playing |-> TRUE,
                            last_frame_time |-> 0]

\* Time passes between two calls.
Tick ==
    /\ clock < MaxTicks * TickMs
    /\ clock' = clock + TickMs
    /\ UNCHANGED <<animation, acall, aret, notAnim>>

AnimationController_update ==
    LET elapsed_ms == clock - animation.last_frame_time
    IN  /\ acall' = [op |-> "update"]
        /\ IF ~animation.is_playing
           THEN /\ aret' = "False"
                /\ UNCHANGED animation
           ELSE IF elapsed_ms
                       >= animation.frame_durations[animation.current_frame + 1]
           THEN /\ animation' =
                       [animation EXCEPT
                           !.current_frame = (@ + 1) % animation.frame_count,
                           !.last_frame_time = clock]
                /\ aret' = "True"
           ELSE /\ aret' = "False"
                /\ UNCHANGED animation
        /\ UNCHANGED <<clock, notAnim>>

AnimationController_toggle_play_pause ==
    /\ acall' = [op |-> "toggle_play_pause"]
    /\ animation' =
           [animation EXCEPT
               !.is_playing = ~@,
               !.last_frame_time = IF ~animation.is_playing THEN clock ELSE @]
    /\ aret' = "None"
    /\ UNCHANGED <<clock, notAnim>>

AnimationController_next_frame ==
    /\ acall' = [op |-> "next_frame"]
    /\ animation' =
           [animation EXCEPT
               !.current_frame = (@ + 1) % animation.frame_count,
               !.last_frame_time = clock]
    /\ aret' = "None"
    /\ UNCHANGED <<clock, notAnim>>

AnimationController_prev_frame ==
    /\ acall' = [op |-> "prev_frame"]
    /\ animation' =
           [animation EXCEPT
               !.current_frame = (@ - 1) % animation.frame_count,
               !.last_frame_time = clock]
    /\ aret' = "None"
    /\ UNCHANGED <<clock, notAnim>>

\* seek_frame taking frame_count for a frame.
SeekInRangeInclusive(frame, frame_count) == 0 <= frame /\ frame <= frame_count

\* if 0 <= frame < self.frame_count
SeekInRange(frame, frame_count) == 0 <= frame /\ frame < frame_count

AnimationController_seek_frame ==
    \E frame \in SeekArgs :
        /\ acall' = [op |-> "seek_frame", arg |-> frame]
        /\ IF SeekInRange(frame, animation.frame_count)
           THEN animation' = [animation EXCEPT !.current_frame = frame,
                                               !.last_frame_time = clock]
           ELSE UNCHANGED animation
        /\ aret' = "None"
        /\ UNCHANGED <<clock, notAnim>>

AnimationNext ==
    \/ Tick
    \/ AnimationController_update
    \/ AnimationController_toggle_play_pause
    \/ AnimationController_next_frame
    \/ AnimationController_prev_frame
    \/ AnimationController_seek_frame

AnimationSpec == AnimationInit /\ [][AnimationNext]_vars

\* ----------------------------------------------------------------- fetcher

BLOCKED_SCHEMES == {"file", "ftp", "gopher", "data", "javascript"}
BLOCKED_HOSTNAMES == {"localhost", "127.0.0.1", "::1", "0.0.0.0"}

\* The schemes and the hosts of the URLs fetched, as they are typed.  A URL
\* is the pair of the two; "" is a URL without a host.
Schemes == {"http", "https", "HTTP", "file", "FILE", "ftp", "gopher", "data",
            "javascript", "JavaScript"}
Hostnames == {"", "example.com", "intranet.test", "localhost", "LOCALHOST",
              "127.0.0.1", "127.0.0.2", "::1", "0.0.0.0", "10.0.0.1",
              "172.16.0.1", "172.32.0.1", "192.168.1.1", "169.254.169.254",
              "240.0.0.1", "8.8.8.8"}
FetchUrls == [scheme : Schemes, hostname : Hostnames]

\* str.lower()
Lower(s) ==
    CASE s = "HTTP" -> "http"
      [] s = "FILE" -> "file"
      [] s = "JavaScript" -> "javascript"
      [] s = "LOCALHOST" -> "localhost"
      [] OTHER -> s

\* urlparse(url): the scheme and the hostname come back in lower case
UrlParse(url) ==
    [scheme |-> Lower(url.scheme), hostname |-> Lower(url.hostname)]

\* ipaddress.ip_address(hostname): the four octets of an IPv4 address, the
\* words of an IPv6 address, or a ValueError
NotAnAddress == <<>>
IpAddress(hostname) ==
    CASE hostname = "127.0.0.1" -> <<127, 0, 0, 1>>
      [] hostname = "127.0.0.2" -> <<127, 0, 0, 2>>
      [] hostname = "0.0.0.0" -> <<0, 0, 0, 0>>
      [] hostname = "10.0.0.1" -> <<10, 0, 0, 1>>
      [] hostname = "172.16.0.1" -> <<172, 16, 0, 1>>
      [] hostname = "172.32.0.1" -> <<172, 32, 0, 1>>
      [] hostname = "192.168.1.1" -> <<192, 168, 1, 1>>
      [] hostname = "169.254.169.254" -> <<169, 254, 169, 254>>
      [] hostname = "240.0.0.1" -> <<240, 0, 0, 1>>
      [] hostname = "8.8.8.8" -> <<8, 8, 8, 8>>
      [] hostname = "::1" -> <<0, 0, 0, 0, 0, 0, 0, 1>>
      [] OTHER -> NotAnAddress

IsV4(ip) == Len(ip) = 4
\* ip.is_loopback: 127.0.0.0/8 and ::1
IsLoopback(ip) ==
    IF IsV4(ip) THEN ip[1] = 127 ELSE ip = <<0, 0, 0, 0, 0, 0, 0, 1>>
\* ip.is_reserved: 240.0.0.0/4, and the reserved blocks of IPv6 (::/8 among them)
IsReserved(ip) ==
    IF IsV4(ip) THEN ip[1] >= 240 ELSE ip[1] < 256
\* ip.is_private: the private-use networks of the address registry
IsPrivate(ip) ==
    IF IsV4(ip)
    THEN \/ ip[1] = 0
         \/ ip[1] = 10
         \/ ip[1] = 127
         \/ ip[1] = 169 /\ ip[2] = 254
         \/ ip[1] = 172 /\ ip[2] >= 16 /\ ip[2] <= 31
         \/ ip[1] = 192 /\ ip[2] = 168
         \/ ip[1] >= 240
    ELSE ip = <<0, 0, 0, 0, 0, 0, 0, 1>>

\* socket.getaddrinfo(hostname): what the resolver may answer, the addresses
\* of the host or a gaierror (no address)
Resolutions(hostname) ==
    CASE hostname = "example.com" -> {<<>>, <<<<93, 184, 216, 34>>>>}
      [] hostname = "intranet.test" -> {<<>>, <<<<10, 0, 0, 7>>>>}
      [] hostname = "localhost" -> {<<<<127, 0, 0, 1>>>>}
      [] hostname = "" -> {<<>>}
      [] OTHER -> {<<IpAddress(hostname)>>}

\* is_private_ip(hostname), the resolver answering addr_info
is_private_ip(hostname, addr_info) ==
    IF IpAddress(hostname) # NotAnAddress
    THEN LET ip == IpAddress(hostname)
         IN  IsPrivate(ip) \/ IsLoopback(ip) \/ IsReserved(ip)
    ELSE \E i \in 1..Len(addr_info) :
             IsPrivate(addr_info[i]) \/ IsLoopback(addr_info[i])
                 \/ IsReserved(addr_info[i])

\* _validate_url letting every URL through when private addresses are allowed.
ValidateUrlSkipFirst(url, allow_private, addr_info) ==
    LET parsed == UrlParse(url)
    IN  IF allow_private THEN "None"
        ELSE IF parsed.scheme \in BLOCKED_SCHEMES THEN "UnsafeURLError"
        ELSE IF parsed.hostname \in BLOCKED_HOSTNAMES THEN "UnsafeURLError"
        ELSE IF is_private_ip(parsed.hostname, addr_info) THEN "UnsafeURLError"
        ELSE "None"

\* WebFetcher._validate_url(url): what it raises, or None
_validate_url(url, allow_private, addr_info) ==
    LET parsed == UrlParse(url)
        hostname == parsed.hostname
    IN  IF Lower(parsed.scheme) \in BLOCKED_SCHEMES THEN "UnsafeURLError"
        ELSE IF allow_private THEN "None"
        ELSE IF Lower(hostname) \in BLOCKED_HOSTNAMES THEN "UnsafeURLError"
        ELSE IF is_private_ip(hostname, addr_info) THEN "UnsafeURLError"
        ELSE "None"

\* Where a server may redirect the client, which follows redirects.
Redirects == {<<>>, <<[scheme |-> "http", hostname |-> "10.0.0.1"]>>}

\* What fetch returns or raises once the client has the response.
Responses == {"FetchResult", "ResponseTooLargeError", "HTTPError"}

\* WebFetcher(): no client yet, private addresses not allowed.
FetcherInit ==
    /\ KittyInit
    /\ NoCli
    /\ NoPlayer
    /\ ThreadInit
    /\ NoViewers
    /\ WebInit
    /\ NoAnimation
    /\ fetcher = [kind |-> "WebFetcher", client |-> "None",
                  allow_private |-> FALSE]
    /\ fcall = NoCall
    /\ fret = "None"

\* fetcher._allow_private = True, as the tests against a local server do.
AllowPrivate ==
    /\ ~fetcher.allow_private
    /\ fetcher' = [fetcher EXCEPT !.allow_private = TRUE]
    /\ fcall' = [op |-> "allow_private"]
    /\ fret' = "None"
    /\ UNCHANGED notFetch

WebFetcher_fetch ==
    \E url \in FetchUrls :
        \E addr_info \in Resolutions(UrlParse(url).hostname) :
            \E redirects \in Redirects, response \in Responses :
                LET raised ==
                        _validate_url(url, fetcher.allow_private, addr_info)
                    requested ==
                        IF raised # "None" THEN <<>> ELSE <<url>> \o redirects
                IN  /\ fcall' = [op |-> "fetch", arg |-> url,
                                 allow_private |-> fetcher.allow_private,
                                 requested |-> requested]
                    /\ fret' = (IF raised # "None" THEN raised ELSE response)
                    /\ fetcher' = (IF raised # "None" THEN fetcher
                                   ELSE [fetcher EXCEPT !.client = "Client"])
                    /\ UNCHANGED notFetch

WebFetcher_close ==
    /\ fetcher.client # "None"
    /\ fetcher' = [fetcher EXCEPT !.client = "None"]
    /\ fcall' = [op |-> "close"]
    /\ fret' = "None"
    /\ UNCHANGED notFetch

FetcherNext ==
    \/ AllowPrivate
    \/ WebFetcher_fetch
    \/ WebFetcher_close

FetcherSpec == FetcherInit /\ [][FetcherNext]_vars

\* ------------------------------------------------------------------ player

\* Most commands sent, and most pieces of text held in the receive buffer.
MaxCommands == 3
MaxBuffer == 2

\* What a call returns when it returns None, and what it raises.
NoneReturned == [none |-> TRUE]
Raised(exception) == [raised |-> exception]

\* The texts mpv writes, each the JSON text of the dict shown: the reply to
\* the command of a request id, a reply without a request id, an event.
Reply(request_id) == [error |-> "success", request_id |-> request_id]
BareReply == [error |-> "success"]
Event == [event |-> "playback-restart"]
\* A text that is not JSON, and the line feed.
Garbage == [not_json |-> TRUE]
LineFeed == [newline |-> TRUE]

\* mpv replies to the request ids it was sent.
Texts(request_id) ==
    {Reply(id) : id \in 1..request_id} \cup {BareReply, Event, Garbage}

\* socket.recv(4096): a piece of the stream (a text and its line feed, a text
\* whose line feed is still to come, a line feed alone), bytes that are not
\* UTF-8, b"" as mpv closed the socket, or socket.timeout after 0.5 s.
Received(request_id) ==
    {[kind |-> "data", data |-> <<text, LineFeed>>] :
         text \in Texts(request_id)}
    \cup {[kind |-> "data", data |-> <<text>>] : text \in Texts(request_id)}
    \cup {[kind |-> "data", data |-> <<LineFeed>>],
          [kind |-> "invalid", data |-> <<>>],
          [kind |-> "closed", data |-> <<>>],
          [kind |-> "timeout", data |-> <<>>]}

\* "\n" in self._recv_buffer
HasLine(recv_buffer) ==
    \E n \in 1..Len(recv_buffer) : recv_buffer[n] = LineFeed

\* self._recv_buffer.split("\n", 1): the line and the rest
SplitLine(recv_buffer) ==
    LET at == CHOOSE n \in 1..Len(recv_buffer) :
                  /\ recv_buffer[n] = LineFeed
                  /\ \A m \in 1..(n - 1) : recv_buffer[m] # LineFeed
    IN  [line |-> SubSeq(recv_buffer, 1, at - 1),
         rest |-> SubSeq(recv_buffer, at + 1, Len(recv_buffer))]

\* json.loads(line): the dict of a line that is one JSON text, or a
\* JSONDecodeError (an empty line, a text that is not JSON, two texts in one
\* line)
JsonLoads(line) ==
    IF Len(line) = 1 /\ line[1] # Garbage
    THEN line[1]
    ELSE Raised("JSONDecodeError")

\* _send_command returning any reply that carries a request id.
AnswersAny(response, request_id) == "request_id" \in DOMAIN response

\* if response.get("request_id") == self._request_id: return response
\* if "request_id" not in response and "event" not in response:
\*     return response
Answers(response, request_id) ==
    \/ /\ "request_id" \in DOMAIN response
       /\ response.request_id = request_id
    \/ /\ "request_id" \notin DOMAIN response
       /\ "event" \notin DOMAIN response

\* VideoPlayer(video_path), connected to mpv.
PlayerInit ==
    /\ KittyInit
    /\ NoCli
    /\ ThreadInit
    /\ NoViewers
    /\ WebInit
    /\ NoAnimation
    /\ NoFetcher
    /\ player = [kind |-> "VideoPlayer", socket |-> "Socket",
                 recv_buffer |-> <<>>, request_id |-> 0]
    /\ ppc = "idle"
    /\ pcall = NoCall
    /\ pret = NoneReturned
    /\ wire = <<>>

\* Where _send_command returns to: its caller, or close, which called it in
\* the loop "quitting" and goes on at "closing".
Back(position) == IF position = "quitting" THEN "closing" ELSE "idle"
InLoop(position) == position \in {"reading", "quitting"}

\* _send_command up to its loop, with a socket: it takes the next request id
\* and writes the command, which may raise BrokenPipeError.
Send(loop) ==
    /\ player.request_id < MaxCommands
    /\ player' = [player EXCEPT !.request_id = @ + 1]
    /\ \E sent \in BOOLEAN :
           IF sent
           THEN /\ wire' = Append(wire, player.request_id + 1)
                /\ ppc' = loop
                /\ UNCHANGED pret
           ELSE /\ pret' = NoneReturned
                /\ ppc' = Back(loop)
                /\ UNCHANGED wire

\* _send_command called by a method other than close.  Without a socket it
\* returns None.
VideoPlayer_send_command ==
    /\ ppc = "idle"
    /\ pcall' = [op |-> "_send_command", step |-> "send"]
    /\ IF player.socket = "None"
       THEN /\ pret' = NoneReturned
            /\ UNCHANGED <<player, ppc, wire>>
       ELSE Send("reading")
    /\ UNCHANGED notPlayer

\* _recv_line without a line in the buffer: one socket.recv.
VideoPlayer_recv ==
    /\ InLoop(ppc)
    /\ ~HasLine(player.recv_buffer)
    /\ \E received \in Received(player.request_id) :
           /\ pcall' = [op |-> "_send_command", step |-> "recv",
                        received |-> received.kind]
           /\ IF received.kind = "data"
              THEN /\ Len(player.recv_buffer) + Len(received.data)
                          <= MaxBuffer + 1
                   /\ player' = [player EXCEPT
                                    !.recv_buffer = @ \o received.data]
                   /\ UNCHANGED <<ppc, pret>>
              ELSE /\ pret' = (IF received.kind = "invalid"
                               THEN Raised("UnicodeDecodeError")
                               ELSE NoneReturned)
                   /\ ppc' = Back(ppc)
                   /\ UNCHANGED player
    /\ UNCHANGED <<wire, notPlayer>>

\* _recv_line with a line in the buffer, and what the loop of _send_command
\* does with the line.
VideoPlayer_recv_line ==
    /\ InLoop(ppc)
    /\ HasLine(player.recv_buffer)
    /\ LET split == SplitLine(player.recv_buffer)
           response == JsonLoads(split.line)
       IN  /\ pcall' = [op |-> "_send_command", step |-> "line",
                        line |-> split.line]
           /\ player' = [player EXCEPT !.recv_buffer = split.rest]
           /\ IF response # Raised("JSONDecodeError")
                 /\ Answers(response, player.request_id)
              THEN /\ pret' = response
                   /\ ppc' = Back(ppc)
              ELSE UNCHANGED <<ppc, pret>>
    /\ UNCHANGED <<wire, notPlayer>>

\* close with a socket: it sends quit.
VideoPlayer_close ==
    /\ ppc = "idle"
    /\ player.socket # "None"
    /\ pcall' = [op |-> "close", step |-> "send"]
    /\ Send("quitting")
    /\ UNCHANGED notPlayer

\* close after its _send_command returned or raised: it closes the socket.
VideoPlayer_close_socket ==
    /\ ppc = "closing"
    /\ pcall' = [op |-> "close", step |-> "close"]
    /\ player' = [player EXCEPT !.socket = "None"]
    /\ pret' = NoneReturned
    /\ ppc' = "idle"
    /\ UNCHANGED <<wire, notPlayer>>

PlayerNext ==
    \/ VideoPlayer_send_command
    \/ VideoPlayer_recv
    \/ VideoPlayer_recv_line
    \/ VideoPlayer_close
    \/ VideoPlayer_close_socket

PlayerSpec == PlayerInit /\ [][PlayerNext]_vars

\* ------------------------------------------------------- the keys of pdfcat

\* Most digits typed into num_buffer.
MaxCount == 2

\* The digit keys and the other keys get_keypress returns.
DigitKeys == {"0", "1", "2", "3"}
PageKeys == {"j", "k"}
ZoomKeys == {"=", "+", "-", "_"}
OtherKeys == {"G", "g", ":", "CTRL_L", "ESC", "x"}
Keys == DigitKeys \cup PageKeys \cup ZoomKeys \cup OtherKeys

\* What read_line_with_escape returns in command mode: None on ESC, or the
\* line typed.
CommandInputs == {"None", "", "q", "h", "r", "2", "12", "zz"}

\* int(key) of a digit key
DigitValue(key) ==
    CASE key = "0" -> 0
      [] key = "1" -> 1
      [] key = "2" -> 2
      [] key = "3" -> 3

\* int(num_buffer)
RECURSIVE PyInt(_)
PyInt(digits) ==
    IF digits = <<>>
    THEN 0
    ELSE 10 * PyInt(SubSeq(digits, 1, Len(digits) - 1))
             + DigitValue(digits[Len(digits)])

\* int(cmd_input): the number, or -1 for a ValueError
IntOfCommand(cmd_input) ==
    CASE cmd_input = "2" -> 2
      [] cmd_input = "12" -> 12
      [] OTHER -> -1

\* The digit keys read at the top of the loop in a row, the key read last
\* being the last of them.
Run == IF kcall.key \in DigitKeys /\ kcall.top THEN kcall.run ELSE <<>>

\* pdfcat FILE: a PDFViewer at the first page, an empty num_buffer.
CliInit ==
    /\ KittyInit
    /\ ThreadInit
    /\ NoViewers
    /\ WebInit
    /\ NoAnimation
    /\ NoFetcher
    /\ NoPlayer
    /\ kpc = "key"
    /\ kcall = [key |-> "None", top |-> FALSE, run |-> <<>>]
    /\ kout = "page"
    /\ \E initial_zoom \in InitialZooms, total_pages \in 1..MaxPages :
           pdfcat = [viewer |-> [kind |-> "PDFViewer",
                                 current_page |-> 0,
                                 zoom_level |-> initial_zoom,
                                 total_pages |-> total_pages],
                     num_buffer |-> <<>>,
                     zoom_moves |-> 0]

\* viewer.go_to_page(page_num) called by the loop, which prints the page or,
\* in except ValueError, failed.
GoToPage(page_num, failed) ==
    IF PageOutOfRange(page_num, pdfcat.viewer.total_pages)
    THEN /\ pdfcat' = [pdfcat EXCEPT !.num_buffer = <<>>]
         /\ kout' = failed
    ELSE /\ pdfcat' = [pdfcat EXCEPT !.viewer.current_page = page_num - 1,
                                     !.num_buffer = <<>>]
         /\ kout' = "page"

\* A digit key: it goes to num_buffer when a count is pending or the key is
\* not 0.
Key_digit ==
    \E key \in DigitKeys :
        /\ kpc = "key"
        /\ pdfcat.num_buffer # <<>> \/ key # "0"
        /\ Len(pdfcat.num_buffer) < MaxCount
        /\ kcall' = [key |-> key, top |-> TRUE, run |-> Append(Run, key)]
        /\ pdfcat' = [pdfcat EXCEPT !.num_buffer = Append(@, key)]
        /\ kout' = "nothing"
        /\ UNCHANGED <<kpc, notCli>>

\* j, n and the arrows; k, p and the arrows.
Key_page ==
    \E key \in PageKeys :
        LET page == pdfcat.viewer.current_page + (IF key = "j" THEN 1 ELSE -1)
            moved == page >= 0 /\ page <= pdfcat.viewer.total_pages - 1
        IN  /\ kpc = "key"
            /\ kcall' = [key |-> key, top |-> TRUE, run |-> <<>>]
            /\ pdfcat' = [pdfcat EXCEPT
                             !.num_buffer = <<>>,
                             !.viewer.current_page = IF moved THEN page ELSE @]
            /\ kout' = (IF moved THEN "page" ELSE "nothing")
            /\ UNCHANGED <<kpc, notCli>>

\* G: to the page of the pending count, or to the last page.
Key_G ==
    /\ kpc = "key"
    /\ kcall' = [key |-> "G", top |-> TRUE, run |-> <<>>]
    /\ IF pdfcat.num_buffer # <<>>
       THEN GoToPage(PyInt(pdfcat.num_buffer), "error")
       ELSE GoToPage(pdfcat.viewer.total_pages, "raised")
    /\ UNCHANGED <<kpc, notCli>>

\* g: the loop waits for the second key.
Key_g ==
    /\ kpc = "key"
    /\ kcall' = [key |-> "g", top |-> TRUE, run |-> <<>>]
    /\ kpc' = "second"
    /\ UNCHANGED <<pdfcat, kout, notCli>>

\* The key after g: a second g goes to the first page; any key empties
\* num_buffer.
Key_second ==
    \E next_key \in Keys :
        /\ kpc = "second"
        /\ kcall' = [key |-> next_key, top |-> FALSE, run |-> <<>>]
        /\ IF next_key = "g"
           THEN GoToPage(1, "raised")
           ELSE /\ pdfcat' = [pdfcat EXCEPT !.num_buffer = <<>>]
                /\ kout' = "nothing"
        /\ kpc' = "key"
        /\ UNCHANGED notCli

\* The command mode.
Key_colon ==
    \E cmd_input \in CommandInputs :
        /\ kpc = "key"
        /\ kcall' = [key |-> ":", top |-> TRUE, run |-> <<>>,
                     cmd_input |-> cmd_input]
        /\ IF cmd_input \in {"None", ""}
           THEN /\ pdfcat' = [pdfcat EXCEPT !.num_buffer = <<>>]
                /\ kout' = "status"
                /\ UNCHANGED kpc
           ELSE IF cmd_input = "q"
           THEN /\ pdfcat' = [pdfcat EXCEPT !.num_buffer = <<>>]
                /\ kout' = "nothing"
                /\ kpc' = "quit"
           ELSE IF cmd_input \in {"h", "r"}
           THEN /\ pdfcat' = [pdfcat EXCEPT !.num_buffer = <<>>]
                /\ kout' = "page"
                /\ UNCHANGED kpc
           ELSE /\ GoToPage(IntOfCommand(cmd_input), "unknown command")
                /\ UNCHANGED kpc
        /\ UNCHANGED notCli

\* =, +, - and _: zoom in and out by 5% and 10%.
Key_zoom ==
    \E key \in ZoomKeys :
        LET step == IF key \in {"+", "_"}
                    THEN PDF_ZOOM_STEP_LARGE
                    ELSE ZOOM_STEP
            new_zoom == IF key \in {"=", "+"}
                        THEN FAdd(pdfcat.viewer.zoom_level, step)
                        ELSE FSub(pdfcat.viewer.zoom_level, step)
            zoomed == IF key \in {"=", "+"}
                      THEN FLessEq(new_zoom, PDF_MAX_ZOOM)
                      ELSE FLessEq(PDF_MIN_ZOOM, new_zoom)
        IN  /\ kpc = "key"
            /\ kcall' = [key |-> key, top |-> TRUE, run |-> <<>>]
            /\ IF zoomed
               THEN /\ pdfcat.zoom_moves < MaxZoomMoves
                    /\ pdfcat' = [pdfcat EXCEPT !.num_buffer = <<>>,
                                                !.viewer.zoom_level = new_zoom,
                                                !.zoom_moves = @ + 1]
                    /\ kout' = "page"
               ELSE /\ pdfcat' = [pdfcat EXCEPT !.num_buffer = <<>>]
                    /\ kout' = "nothing"
            /\ UNCHANGED <<kpc, notCli>>

\* 0 without a pending count: viewer.set_zoom(1.0).
Key_0 ==
    /\ kpc = "key"
    /\ pdfcat.num_buffer = <<>>
    /\ Len(Run) < MaxCount
    /\ kcall' = [key |-> "0", top |-> TRUE, run |-> Append(Run, "0")]
    /\ pdfcat' = [pdfcat EXCEPT !.viewer.zoom_level = PdfClampZoom(ONE)]
    /\ kout' = "page"
    /\ UNCHANGED <<kpc, notCli>>

\* Ctrl-L: the page is printed again.
Key_refresh ==
    /\ kpc = "key"
    /\ kcall' = [key |-> "CTRL_L", top |-> TRUE, run |-> <<>>]
    /\ pdfcat' = [pdfcat EXCEPT !.num_buffer = <<>>]
    /\ kout' = "page"
    /\ UNCHANGED <<kpc, notCli>>

\* elif key == "\x1b": pass
Escape(num_buffer) == num_buffer

Key_escape ==
    /\ kpc = "key"
    /\ kcall' = [key |-> "ESC", top |-> TRUE, run |-> <<>>]
    /\ pdfcat' = [pdfcat EXCEPT !.num_buffer = Escape(@)]
    /\ kout' = "nothing"
    /\ UNCHANGED <<kpc, notCli>>

\* Any other key empties num_buffer.
Key_unknown ==
    /\ kpc = "key"
    /\ kcall' = [key |-> "x", top |-> TRUE, run |-> <<>>]
    /\ pdfcat' = [pdfcat EXCEPT !.num_buffer = <<>>]
    /\ kout' = "nothing"
    /\ UNCHANGED <<kpc, notCli>>

CliNext ==
    \/ Key_digit
    \/ Key_page
    \/ Key_G
    \/ Key_g
    \/ Key_second
    \/ Key_colon
    \/ Key_zoom
    \/ Key_0
    \/ Key_refresh
    \/ Key_escape
    \/ Key_unknown

CliSpec == CliInit /\ [][CliNext]_vars

\* ------------------------------------------------ reading a returned string

\* The elements of a finite set of integers, ascending.
Ascending(S) ==
    [k \in 1..Cardinality(S) |->
        CHOOSE i \in S : Cardinality({j \in S : j < i}) = k - 1]

\* Where the character ESC stands in s.
Escapes(s) == {i \in 1..Len(s) : s[i] = ESC}

\* Where a command opens (ESC _ G) and where one is closed (ESC \).
Opens(s) ==
    {i \in Escapes(s) : i + 2 <= Len(s) /\ s[i + 1] = "_" /\ s[i + 2] = "G"}
Closes(s) == {i \in Escapes(s) : i + 1 <= Len(s) /\ s[i + 1] = "\\"}

\* Every ESC _ G has its ESC \ before the next ESC _ G or the end.
SelfTerminated(s) ==
    \A opens \in {Opens(s)}, closes \in {Closes(s)} :
        \A p \in opens :
            \E c \in closes :
                /\ c > p
                /\ \A q \in opens : q > p => c < q

\* s.find(ch, from, to + 1), or to + 1 when ch is not there.
RECURSIVE Find(_, _, _, _)
Find(s, ch, from, to) ==
    IF from > to THEN to + 1
    ELSE IF s[from] = ch THEN from
    ELSE Find(s, ch, from + 1, to)

\* The commands of s in order: for each ESC _ G, the text up to its ESC \,
\* cut at the first ";" into control block and payload.
Commands(s) ==
    LET opens == Ascending(Opens(s))
        closes == Closes(s)
    IN  [k \in 1..Len(opens) |->
            LET p == opens[k]
                after == {c \in closes : c > p}
                c == IF after = {} THEN Len(s) + 1
                     ELSE CHOOSE x \in after : \A y \in after : x <= y
                semi == Find(s, ";", p + 3, c - 1)
            IN  [open |-> p, close |-> c, separated |-> semi < c,
                 control |-> SubSeq(s, p + 3, semi - 1),
                 payload |-> SubSeq(s, semi + 1, c - 1)]]

\* The commands of s lie end to end and make up all of s.
Tiled(s, cmds) ==
    /\ Len(cmds) > 0
    /\ cmds[1].open = 1
    /\ cmds[Len(cmds)].close + 1 = Len(s)
    /\ \A k \in 1..(Len(cmds) - 1) : cmds[k].close + 2 = cmds[k + 1].open

\* s.split(ch)
Split(s, ch) ==
    LET cuts == Ascending({i \in 1..Len(s) : s[i] = ch})
    IN  [k \in 1..(Len(cuts) + 1) |->
            SubSeq(s, IF k = 1 THEN 1 ELSE cuts[k - 1] + 1,
                      IF k = Len(cuts) + 1 THEN Len(s) ELSE cuts[k] - 1)]

\* The key=value fields of a command's control block, and their keys.
Fields(cmd) == Split(cmd.control, ",")
KeyOf(field) == Split(field, "=")[1]
KeysOf(cmd) == [n \in 1..Len(Fields(cmd)) |-> KeyOf(Fields(cmd)[n])]
HasKey(cmd, key) == \E n \in 1..Len(Fields(cmd)) : KeysOf(cmd)[n] = key
ValueOf(cmd, key) ==
    Split(CHOOSE field \in {Fields(cmd)[n] : n \in 1..Len(Fields(cmd))} :
              KeyOf(field) = key, "=")[2]
Carries(cmd, key, value) ==
    \E n \in 1..Len(Fields(cmd)) : Fields(cmd)[n] = key \o <<"=">> \o value

\* The commands of cmds that satisfy a test, as indices.
WithKey(cmds, key) == {k \in 1..Len(cmds) : HasKey(cmds[k], key)}
With(cmds, key, value) ==
    {k \in 1..Len(cmds) : Carries(cmds[k], key, value)}

\* -------------------------------------------------------------- properties

Displayed == pc = "returned" /\ call.op = "display_image"
Payload == EncodedOf(call.image)
Chunked == Displayed /\ Len(Payload) > CHUNK_SIZE
Single == Displayed /\ Len(Payload) <= CHUNK_SIZE
NumChunks == (Len(Payload) + CHUNK_SIZE - 1) \div CHUNK_SIZE

\* C1: a payload longer than 4096 is sent as ceil(L/4096) consecutive chunks
\* whose concatenation in order is the payload; the output holds (chunks - 1)
\* commands carrying m=1, then one carrying m=0, then one payload-less a=p
\* command, in that order.
C1_ChunkRoundTrip ==
    Chunked =>
        \A cmds \in {Commands(result)} :
            \A n \in {Len(cmds)}, first \in {Len(cmds) - NumChunks} :
                /\ Tiled(result, cmds)
                /\ first >= 1
                /\ WithKey(cmds, <<"m">>) = first..(n - 1)
                /\ StrJoin([k \in 1..NumChunks |-> cmds[first + k - 1].payload])
                       = Payload
                /\ With(cmds, <<"m">>, <<"1">>) = first..(n - 2)
                /\ With(cmds, <<"m">>, <<"0">>) = {n - 1}
                /\ With(cmds, <<"a">>, <<"p">>) = {n}
                /\ cmds[n].payload = <<>>

C1_Witness ==
    /\ Chunked
    /\ NumChunks >= 4
    /\ Len(Payload) % CHUNK_SIZE # 0
    /\ Cardinality(With(Commands(result), <<"m">>, <<"1">>)) = NumChunks - 1

\* C2: a payload of at most 4096 characters, without the delete prefix, is
\* returned as the one command ESC _G a=T,f=100 ; <payload> ESC \ with the
\* payload encode_image gives; no m, i or q key and no a=p command.
C2_SmallImageOneCommand ==
    (Single /\ ~call.delete_previous) =>
        \A cmds \in {Commands(result)} :
            /\ result = <<ESC, "_", "G", "a", "=", "T", ",", "f", "=", "1",
                          "0", "0", ";">> \o Payload \o <<ESC, "\\">>
            /\ Len(cmds) = 1
            /\ cmds[1].payload = Payload
            /\ KeysOf(cmds[1]) = << <<"a">>, <<"f">> >>
            /\ With(cmds, <<"a">>, <<"p">>) = {}

C2_Witness ==
    /\ Single
    /\ ~call.delete_previous
    /\ Len(Payload) > 0
    /\ Len(Payload) < CHUNK_SIZE
    /\ Len(Commands(result)) = 1

\* C3: the choice of path is inclusive at CHUNK_SIZE: a payload of at most
\* 4096 characters (4096 itself included) goes in one a=T command with no
\* chunk command and no a=p command; a longer one of at most two chunks'
\* length (4097 onwards) goes in exactly two transmit chunks.
C3_ThresholdInclusive ==
    Displayed =>
        \A cmds \in {Commands(result)} :
            /\ Len(Payload) <= CHUNK_SIZE =>
                /\ Cardinality(With(cmds, <<"a">>, <<"T">>)) = 1
                /\ WithKey(cmds, <<"m">>) = {}
                /\ With(cmds, <<"a">>, <<"p">>) = {}
            /\ (Len(Payload) > CHUNK_SIZE /\ Len(Payload) <= 2 * CHUNK_SIZE) =>
                /\ With(cmds, <<"a">>, <<"T">>) = {}
                /\ Cardinality(WithKey(cmds, <<"m">>)) = 2
                /\ Cardinality(With(cmds, <<"a">>, <<"p">>)) = 1

C3_Witness ==
    /\ Displayed
    /\ Len(Payload) = CHUNK_SIZE
    /\ Cardinality(With(Commands(result), <<"a">>, <<"T">>)) = 1

\* C4: every command of display_image carries at most 4096 payload
\* characters; on the chunked path every chunk but the last has exactly 4096
\* and the last has between 1 and 4096.
C4_ChunkSizes ==
    Displayed =>
        \A cmds \in {Commands(result)} :
            \A chunks \in {Ascending(WithKey(cmds, <<"m">>))} :
                /\ \A k \in 1..Len(cmds) : Len(cmds[k].payload) <= CHUNK_SIZE
                /\ Chunked =>
                    /\ Len(chunks) >= 1
                    /\ \A k \in 1..(Len(chunks) - 1) :
                           Len(cmds[chunks[k]].payload) = CHUNK_SIZE
                    /\ Len(cmds[chunks[Len(chunks)]].payload) \in 1..CHUNK_SIZE

C4_Witness ==
    /\ Chunked
    /\ Len(Payload) % CHUNK_SIZE \in 1..(CHUNK_SIZE - 1)
    /\ \E cmds \in {Commands(result)} :
           \E k \in WithKey(cmds, <<"m">>) :
               Len(cmds[k].payload) = Len(Payload) % CHUNK_SIZE

\* C5: in the output of display_image, create_display_command and
\* clear_screen every ESC _G is followed by an ESC \ before the next ESC _G
\* or the end of the string.
C5_SelfTerminated ==
    (pc = "returned" /\ call.op # "encode_image") =>
        /\ Opens(result) # {}
        /\ SelfTerminated(result)

C5_Witness ==
    /\ Chunked
    /\ call.delete_previous
    /\ Cardinality(Opens(result)) = NumChunks + 2
    /\ SelfTerminated(result)

ClearReturned == pc = "returned" /\ call.op = "clear_screen"

IsTransmit(cmd) == Carries(cmd, <<"a">>, <<"T">>) \/ Carries(cmd, <<"a">>, <<"t">>)
EndsClosed(s) == Len(s) >= 2 /\ s[Len(s) - 1] = ESC /\ s[Len(s)] = "\\"

\* C8: on either path display_image with delete_previous=True, passed or
\* by default, emits the delete-all command ESC _G a=d,d=A ; ESC \ first,
\* the transmit command(s) right after it, and ends with ESC \; with
\* delete_previous=False the output holds no a=d command and is the same
\* output less that first command.
C8_DeleteFirst ==
    Displayed =>
        \A cmds \in {Commands(result)} :
            /\ Tiled(result, cmds)
            /\ EndsClosed(result)
            /\ call.passed \in {"default", "True"} =>
                /\ Len(cmds) >= 2
                /\ SubSeq(result, 1, cmds[1].close + 1)
                       = <<ESC, "_", "G", "a", "=", "d", ",", "d", "=", "A",
                           ";", ESC, "\\">>
                /\ With(cmds, <<"a">>, <<"d">>) = {1}
                /\ IsTransmit(cmds[2])
                /\ SubSeq(result, cmds[2].open, Len(result))
                       = display_image(call.image, FALSE)
            /\ call.passed = "False" =>
                /\ With(cmds, <<"a">>, <<"d">>) = {}
                /\ IsTransmit(cmds[1])
                /\ \A full \in {display_image(call.image, TRUE)} :
                       result = SubSeq(full, Len(full) - Len(result) + 1,
                                       Len(full))

C8_Witness ==
    /\ Chunked
    /\ call.passed = "default"
    /\ \E cmds \in {Commands(result)} :
           /\ With(cmds, <<"a">>, <<"d">>) = {1}
           /\ Carries(cmds[2], <<"a">>, <<"t">>)

\* C9: on the chunked path the first transmit command carries an image id
\* (i=1) and the placement command names the same id; the placement command
\* is exactly ESC _G a=p,i=1,q=2 ; ESC \, without payload, and is the last
\* command; no other command carries an i key.  The one-command path emits
\* no i key and no a=p command.
C9_SameImageId ==
    Displayed =>
        \A cmds \in {Commands(result)}, n \in {Len(Commands(result))} :
            /\ Chunked =>
                \A chunks \in {WithKey(cmds, <<"m">>)} :
                    \E first \in chunks :
                        /\ \A k \in chunks : first <= k
                        /\ WithKey(cmds, <<"i">>) = {first, n}
                        /\ first < n
                        /\ ValueOf(cmds[first], <<"i">>) = <<"1">>
                        /\ ValueOf(cmds[n], <<"i">>)
                               = ValueOf(cmds[first], <<"i">>)
                        /\ With(cmds, <<"a">>, <<"p">>) = {n}
                        /\ cmds[n].payload = <<>>
                        /\ SubSeq(result, cmds[n].open, Len(result))
                               = <<ESC, "_", "G", "a", "=", "p", ",", "i",
                                   "=", "1", ",", "q", "=", "2", ";", ESC,
                                   "\\">>
            /\ Single =>
                /\ WithKey(cmds, <<"i">>) = {}
                /\ With(cmds, <<"a">>, <<"p">>) = {}

C9_Witness ==
    /\ Chunked
    /\ ~call.delete_previous
    /\ \E cmds \in {Commands(result)} :
           /\ Carries(cmds[1], <<"i">>, <<"1">>)
           /\ Carries(cmds[Len(cmds)], <<"i">>, <<"1">>)
           /\ Len(cmds) >= 3

Serialized ==
    pc = "returned" /\ call.op \in {"display_image", "create_display_command"}

\* ESC _G <control> ; <payload> ESC \ for each command of cmds, joined.
Rendered(cmds) ==
    StrJoin([k \in 1..Len(cmds) |->
                <<ESC, "_", "G">> \o cmds[k].control \o <<";">>
                    \o cmds[k].payload \o <<ESC, "\\">>])

\* A field of a control block reads key=value with a key.
IsKeyValue(field) ==
    \A parts \in {Split(field, "=")} : Len(parts) >= 2 /\ Len(parts[1]) > 0

KeyOrder(cmds) == [k \in 1..Len(cmds) |-> KeysOf(cmds[k])]

\* The key order display_image is to give for its call.
DisplayKeyOrder ==
    (IF call.delete_previous
     THEN << << <<"a">>, <<"d">> >> >>
     ELSE <<>>)
    \o (IF Single
        THEN << << <<"a">>, <<"f">> >> >>
        ELSE << << <<"a">>, <<"f">>, <<"i">>, <<"q">>, <<"m">> >> >>
             \o [k \in 1..(NumChunks - 1) |-> << <<"m">> >>]
             \o << << <<"a">>, <<"i">>, <<"q">> >> >>)

\* C12: within every command the keys stand in the order the control dict
\* received them, a first wherever it is present: a,f,i,q,m on the first
\* chunk, a,f on the one-command image, a,i,q on the placement, a,f and then
\* d for create_display_command.
C12_KeyOrder ==
    /\ Displayed => KeyOrder(Commands(result)) = DisplayKeyOrder
    /\ (pc = "returned" /\ call.op = "create_display_command") =>
           KeyOrder(Commands(result)) =
               << << <<"a">>, <<"f">> >>
                  \o (IF call.delete THEN << <<"d">> >> ELSE <<>>) >>
    /\ (Displayed \/ (pc = "returned" /\ call.op = "create_display_command"))
           => \A cmds \in {Commands(result)} :
                  \A k \in 1..Len(cmds) :
                      HasKey(cmds[k], <<"a">>) => KeysOf(cmds[k])[1] = <<"a">>

C12_Witness ==
    /\ Chunked
    /\ NumChunks >= 3
    /\ call.delete_previous
    /\ KeysOf(Commands(result)[2]) =
           << <<"a">>, <<"f">>, <<"i">>, <<"q">>, <<"m">> >>

\* The threads inside display_image, from the call to the return or the error.
Displaying == {t \in Threads : tcall[t].op = "display_image"}

\* C13: display_image emits nothing in part: its commands list holds a
\* command (the delete prefix included) only once the image is encoded whole;
\* a string is returned by the last statement only; and when encode_image
\* raises, the call ends with the error, no command built and no string
\* returned.
C13_NoPartialEmission ==
    \A t \in Displaying :
        \A frame \in {frames[FrameOf(t)]}, image \in {tcall[t].image} :
            /\ frame.commands # <<>> =>
                   CanWrite(image) /\ frame.encoded = EncodedOf(image)
            /\ treturn[t] # <<>> => tpc[t] = "done"
            /\ ~CanWrite(image) =>
                   /\ tpc[t] \in {"encode", "raised"}
                   /\ frame.commands = <<>>
                   /\ treturn[t] = <<>>
            /\ tpc[t] = "raised" => ~CanWrite(image)

C13_Witness ==
    \E t \in Displaying :
        /\ tpc[t] = "raised"
        /\ tcall[t].delete_previous
        /\ frames[FrameOf(t)].commands = <<>>
        /\ treturn[t] = <<>>

\* What a call returns when no other call runs.
Alone(c) ==
    CASE c.op = "display_image" -> display_image(c.image, c.delete_previous)
      [] c.op = "encode_image" -> EncodedOf(c.image)
      [] c.op = "clear_screen" -> clear_screen

\* C14: whatever the interleaving of the threads' display_image, encode_image
\* and clear_screen calls, the string a call is about to return and the string
\* it has returned are the string the call returns alone, and a call ends
\* with an error only on an image that cannot be encoded.
C14_NoInterference ==
    \A t \in Threads :
        /\ tpc[t] = "join" =>
               StrJoin(frames[FrameOf(t)].commands) = Alone(tcall[t])
        /\ tpc[t] = "done" => treturn[t] = Alone(tcall[t])
        /\ tpc[t] = "raised" => ~CanWrite(tcall[t].image)

C14_Witness ==
    /\ tpc[1] = "join"
    /\ tpc[2] = "join"
    /\ tcall[1].image # tcall[2].image
    /\ ~IsSmall(frames[FrameOf(1)].encoded)
    /\ frames[FrameOf(1)].commands # frames[FrameOf(2)].commands
    /\ StrJoin(frames[FrameOf(2)].commands) = Alone(tcall[2])

\* The step taken is a call of method op on the viewer.
Called(op) == vcall'.op = op

\* n brought into lo..hi.
Clamped(n, lo, hi) == IF n < lo THEN lo ELSE IF n > hi THEN hi ELSE n

\* The steps of C15: next_file on the last file and previous_file on the
\* first return False and change nothing; go_to_file(n) goes to file n
\* clamped to 1..total_files; go_to_first_file and go_to_last_file go to the
\* first and the last file.
C15_Step ==
    IsImage =>
        \A index \in {image_viewer.current_file_index},
           last \in {image_viewer.total_files - 1} :
            /\ (Called("next_file") /\ index = last) =>
                   vret' = "False" /\ image_viewer' = image_viewer
            /\ (Called("previous_file") /\ index = 0) =>
                   vret' = "False" /\ image_viewer' = image_viewer
            /\ Called("go_to_file") =>
                   image_viewer'.current_file_index =
                       Clamped(vcall'.arg, 1, last + 1) - 1
            /\ Called("go_to_first_file") =>
                   image_viewer'.current_file_index = 0
            /\ Called("go_to_last_file") =>
                   image_viewer'.current_file_index = last

\* C15: an ImageViewer of one file or more keeps 0 <= current_file_index <=
\* total_files - 1 through every next_file, previous_file, go_to_file(n),
\* go_to_first_file and go_to_last_file, and each of them steps as C15_Step
\* says.
C15_FileIndexBounds ==
    /\ [](IsImage =>
              /\ image_viewer.current_file_index >= 0
              /\ image_viewer.current_file_index
                     <= image_viewer.total_files - 1)
    /\ [][C15_Step]_vars

C15_Witness ==
    /\ IsImage
    /\ vcall.op = "go_to_file"
    /\ vcall.arg > image_viewer.total_files
    /\ image_viewer.total_files >= 2
    /\ image_viewer.current_file_index = image_viewer.total_files - 1

\* zoom lies in [lo, hi].
InRange(zoom, lo, hi) == FLessEq(lo, zoom) /\ FLessEq(zoom, hi)

\* The zoom set_zoom(zoom) is to leave: zoom itself inside [lo, hi], the
\* nearer end outside it, and a value of the range for nan.
SetTo(after, zoom, lo, hi) ==
    /\ InRange(after, lo, hi)
    /\ InRange(zoom, lo, hi) => after = zoom
    /\ FLess(zoom, lo) => after = lo
    /\ FLess(hi, zoom) => after = hi

\* The steps of C16: a zoom_in or zoom_out that returns False leaves the
\* zoom as it was, one that returns True moves it by the step, and
\* set_zoom(z) stores z clamped.
C16_Step ==
    /\ IsImage =>
           /\ ((Called("zoom_in") \/ Called("zoom_out")) /\ vret' = "False")
                  => image_viewer' = image_viewer
           /\ ((Called("zoom_in") \/ Called("zoom_out")) /\ vret' = "True")
                  => image_viewer'.zoom_level # image_viewer.zoom_level
           /\ Called("set_zoom") =>
                  SetTo(image_viewer'.zoom_level, vcall'.arg,
                        MIN_ZOOM, MAX_ZOOM)
           /\ Called("reset_zoom") => image_viewer'.zoom_level = ONE
    /\ IsPdf =>
           /\ ((Called("zoom_in") \/ Called("zoom_out")) /\ vret' = "False")
                  => pdf_viewer' = pdf_viewer
           /\ ((Called("zoom_in") \/ Called("zoom_out")) /\ vret' = "True")
                  => pdf_viewer'.zoom_level # pdf_viewer.zoom_level
           /\ Called("set_zoom") =>
                  SetTo(pdf_viewer'.zoom_level, vcall'.arg,
                        PDF_MIN_ZOOM, PDF_MAX_ZOOM)

\* C16: an ImageViewer or PDFViewer constructed with a zoom in [0.25, 4.0]
\* keeps zoom_level in [0.25, 4.0] through every zoom_in and zoom_out with
\* either step, set_zoom(z) for any z and reset_zoom, and each of them steps
\* as C16_Step says.
C16_ZoomRange ==
    /\ [](IsImage => InRange(image_viewer.zoom_level, MIN_ZOOM, MAX_ZOOM))
    /\ [](IsPdf => InRange(pdf_viewer.zoom_level, PDF_MIN_ZOOM, PDF_MAX_ZOOM))
    /\ [][C16_Step]_vars

C16_Witness ==
    /\ IsImage
    /\ vcall.op = "zoom_out"
    /\ vret = "False"
    /\ zoom_moves >= 2
    /\ image_viewer.zoom_level # MIN_ZOOM

\* C17 as stated: zoom_in has returned False only with the zoom at MAX_ZOOM,
\* zoom_out only with the zoom at MIN_ZOOM.
C17_AsStated ==
    /\ (IsImage /\ vcall.op = "zoom_in" /\ vret = "False") =>
           image_viewer.zoom_level = MAX_ZOOM
    /\ (IsImage /\ vcall.op = "zoom_out" /\ vret = "False") =>
           image_viewer.zoom_level = MIN_ZOOM
    /\ (IsPdf /\ vcall.op = "zoom_in" /\ vret = "False") =>
           pdf_viewer.zoom_level = PDF_MAX_ZOOM
    /\ (IsPdf /\ vcall.op = "zoom_out" /\ vret = "False") =>
           pdf_viewer.zoom_level = PDF_MIN_ZOOM

\* The steps of C18: next_page on the last page and previous_page on page 0
\* return False and change nothing; go_to_page(n) outside 1..total_pages
\* raises ValueError and changes nothing, inside it sets current_page = n - 1.
C18_Step ==
    IsPdf =>
        \A page \in {pdf_viewer.current_page},
           total \in {pdf_viewer.total_pages} :
            /\ (Called("next_page") /\ page = total - 1) =>
                   vret' = "False" /\ pdf_viewer' = pdf_viewer
            /\ (Called("previous_page") /\ page = 0) =>
                   vret' = "False" /\ pdf_viewer' = pdf_viewer
            /\ (Called("go_to_page")
                /\ (vcall'.arg < 1 \/ vcall'.arg > total)) =>
                   vret' = "ValueError" /\ pdf_viewer' = pdf_viewer
            /\ (Called("go_to_page")
                /\ vcall'.arg >= 1 /\ vcall'.arg <= total) =>
                   /\ vret' = "None"
                   /\ pdf_viewer' =
                          [pdf_viewer EXCEPT !.current_page = vcall'.arg - 1]

\* C18: a PDFViewer of one page or more keeps 0 <= current_page <=
\* total_pages - 1, and next_page, previous_page and go_to_page step as
\* C18_Step says.
C18_PageBounds ==
    /\ [](IsPdf =>
              /\ pdf_viewer.current_page >= 0
              /\ pdf_viewer.current_page <= pdf_viewer.total_pages - 1)
    /\ [][C18_Step]_vars

C18_Witness ==
    /\ IsPdf
    /\ vcall.op = "go_to_page"
    /\ vret = "ValueError"
    /\ vcall.arg = pdf_viewer.total_pages + 1
    /\ pdf_viewer.current_page > 0

\* The URL of the history entry at index (counted from 0) of a position.
UrlAt(position, index) == position.urls[index + 1]

\* C19 as stated: a go_back that returns True shows the URL of the entry
\* before, a go_forward that returns True the URL of the entry after, and a
\* go_forward returning True right after a go_back returning True brings
\* back the history_index and the current_url that held before the go_back,
\* the URLs of the history being unchanged.
C19_AsStated ==
    /\ (wcall.op = "go_back" /\ wret = "True") =>
           /\ web_viewer.history_index = wcall.before.history_index - 1
           /\ web_viewer.current_url =
                  UrlAt(wcall.before, web_viewer.history_index)
    /\ (wcall.op = "go_forward" /\ wret = "True"
        /\ wcall.back # NoPosition) =>
           Position(web_viewer) = wcall.back

\* The step taken is a call of method op on the WebViewer.
WebCalled(op) == wcall'.op = op

\* The steps of C20: go_back at history_index <= 0 and go_forward at
\* history_index >= len(history) - 1 return False, fetch nothing and leave
\* every attribute as it was.
C20_Step ==
    /\ (WebCalled("go_back") /\ web_viewer.history_index <= 0) =>
           /\ wret' = "False"
           /\ wcall'.fetches = <<>>
           /\ web_viewer' = web_viewer
    /\ (WebCalled("go_forward")
        /\ web_viewer.history_index >= Len(web_viewer.history) - 1) =>
           /\ wret' = "False"
           /\ wcall'.fetches = <<>>
           /\ web_viewer' = web_viewer

\* C20: go_back with an empty history or at the first entry, and go_forward
\* at the last entry, return False without a fetch and without a change of
\* state.
C20_BlockedNavigation == [][C20_Step]_vars

C20_Witness ==
    /\ wcall.op = "go_back"
    /\ wret = "False"
    /\ wcall.fetches = <<>>
    /\ web_viewer.history_index = 0
    /\ Len(web_viewer.history) >= 2
    /\ web_viewer.scroll_position > 0

\* The step taken is a call of method op on the AnimationController, and not
\* the passing of time after one.
AnimCalled(op) == acall'.op = op /\ clock' = clock

\* The steps of C21: next_frame and prev_frame go one frame on and one frame
\* back, the last frame and the first being neighbours; seek_frame(f) with f
\* outside 0..frame_count - 1 leaves current_frame as it was; update with
\* is_playing False returns False and leaves current_frame as it was.
C21_Step ==
    \A frame \in {animation.current_frame},
       count \in {animation.frame_count} :
        /\ AnimCalled("next_frame") =>
               animation'.current_frame =
                   (IF frame = count - 1 THEN 0 ELSE frame + 1)
        /\ AnimCalled("prev_frame") =>
               animation'.current_frame =
                   (IF frame = 0 THEN count - 1 ELSE frame - 1)
        /\ (AnimCalled("seek_frame")
            /\ (acall'.arg < 0 \/ acall'.arg > count - 1)) =>
               animation'.current_frame = frame
        /\ (AnimCalled("update") /\ ~animation.is_playing) =>
               aret' = "False" /\ animation'.current_frame = frame

\* C21: an AnimationController of one frame or more keeps 0 <= current_frame
\* < frame_count through every update, next_frame, prev_frame, seek_frame(f)
\* and toggle_play_pause, and these step as C21_Step says.
C21_FrameBounds ==
    /\ [](/\ animation.current_frame >= 0
          /\ animation.current_frame < animation.frame_count)
    /\ [][C21_Step]_vars

C21_Witness ==
    /\ acall.op = "update"
    /\ aret = "False"
    /\ ~animation.is_playing
    /\ animation.frame_count >= 2
    /\ animation.current_frame = animation.frame_count - 1
    /\ clock - animation.last_frame_time
           >= animation.frame_durations[animation.current_frame + 1]

\* The URL fetched last has a blocked scheme.
BlockedScheme == Lower(fcall.arg.scheme) \in BLOCKED_SCHEMES

\* The URL fetched last names a blocked host, or a private, loopback or
\* reserved address.
BlockedHost ==
    \A hostname \in {Lower(fcall.arg.hostname)} :
        \/ hostname \in BLOCKED_HOSTNAMES
        \/ /\ IpAddress(hostname) # NotAnAddress
           /\ \/ IsPrivate(IpAddress(hostname))
              \/ IsLoopback(IpAddress(hostname))
              \/ IsReserved(IpAddress(hostname))

\* C22: fetch(url) raises UnsafeURLError, and no URL reaches the HTTP client
\* during the call, when the scheme of url is blocked (private addresses
\* allowed or not) or, private addresses not being allowed, its hostname is
\* blocked or is a private, loopback or reserved address.
C22_UnsafeNeverRequested ==
    (/\ fcall.op = "fetch"
     /\ BlockedScheme \/ (~fcall.allow_private /\ BlockedHost)) =>
        /\ fret = "UnsafeURLError"
        /\ fcall.requested = <<>>

C22_Witness ==
    /\ fcall.op = "fetch"
    /\ fcall.allow_private
    /\ BlockedScheme
    /\ fcall.arg.scheme = "FILE"
    /\ fret = "UnsafeURLError"
    /\ fcall.requested = <<>>
    /\ fetcher.client = "Client"

\* The step taken is a load_url, called by its name or by
\* follow_selected_link, that returned True.
Loaded ==
    /\ WebCalled("load_url") \/ WebCalled("follow_selected_link")
    /\ wret' = "True"

\* The steps of C23: a load_url that returns True at an entry before the last
\* keeps the entries up to the current one, drops the entries after it, puts
\* the entry of the page loaded at the end and points history_index at it;
\* a go_forward right after a load_url that returned True returns False.
C23_Step ==
    /\ (/\ Loaded
        /\ web_viewer.history_index < Len(web_viewer.history) - 1) =>
           \A index \in {web_viewer.history_index} :
               /\ Len(web_viewer'.history) = index + 2
               /\ SubSeq(web_viewer'.history, 1, index + 1)
                      = SubSeq(web_viewer.history, 1, index + 1)
               /\ web_viewer'.history[index + 2].url = web_viewer'.current_url
               /\ web_viewer'.history_index = Len(web_viewer'.history) - 1
    /\ (/\ wcall.op \in {"load_url", "follow_selected_link"}
        /\ wret = "True"
        /\ WebCalled("go_forward")) =>
           /\ wret' = "False"
           /\ wcall'.fetches = <<>>

\* C23: a successful load_url in the middle of the history discards the
\* forward history, so that go_forward right after it returns False.
C23_ForwardDiscarded == [][C23_Step]_vars

C23_Witness ==
    /\ wcall.op = "load_url"
    /\ wret = "True"
    /\ wcall.before.history_index = 0
    /\ Len(wcall.before.urls) = MaxHistory
    /\ Len(web_viewer.history) = 2
    /\ web_viewer.history_index = 1
    /\ web_viewer.current_url # wcall.before.urls[2]

\* C24: through load_url, reload, go_back, go_forward and
\* follow_selected_link, their fetches succeeding or failing,
\* -1 <= history_index <= len(history) - 1, and history_index is -1 exactly
\* when the history is empty.
C24_HistoryIndexRange ==
    /\ web_viewer.history_index >= -1
    /\ web_viewer.history_index <= Len(web_viewer.history) - 1
    /\ web_viewer.history_index = -1 <=> web_viewer.history = <<>>

C24_Witness ==
    /\ wcall.op = "go_forward"
    /\ wret = "False"
    /\ wcall.fetches # <<>>
    /\ web_viewer.history_index = Len(web_viewer.history) - 1
    /\ Len(web_viewer.history) = MaxHistory

\* The steps of C25 as stated: a load_url, go_back or go_forward that returns
\* False leaves history, history_index, current_url, current_page,
\* scroll_position and selected_link as they were.
C25_Step ==
    (/\ WebCalled("load_url") \/ WebCalled("go_back") \/ WebCalled("go_forward")
     /\ wret' = "False") =>
        /\ web_viewer'.history = web_viewer.history
        /\ web_viewer'.history_index = web_viewer.history_index
        /\ web_viewer'.current_url = web_viewer.current_url
        /\ web_viewer'.current_page = web_viewer.current_page
        /\ web_viewer'.scroll_position = web_viewer.scroll_position
        /\ web_viewer'.selected_link = web_viewer.selected_link

\* C25 as stated: a navigation of the WebViewer that returns False is a
\* no-op.
C25_AsStated == [][C25_Step]_vars

\* C26 as stated: a go_back or go_forward that returns True and comes back to
\* the entry the navigation before it left (a go_back, a go_forward, a
\* load_url or the following of a link, that returned True) sets
\* scroll_position to the position that entry was left at.
C26_AsStated ==
    (/\ wcall.op \in {"go_back", "go_forward"}
     /\ wret = "True"
     /\ wcall.returns # NoPosition
     /\ wcall.returns.history_index = web_viewer.history_index) =>
        web_viewer.scroll_position = wcall.returns.scroll_position

\* The last position scroll_down scrolls to.
MaxScroll == Max(0, web_viewer.lines - SCROLL_FULL_PAGE)

\* The steps of C27: scroll_up at 0 and scroll_down at the last position
\* return False and change nothing.
C27_Step ==
    /\ (WebCalled("scroll_up") /\ web_viewer.scroll_position = 0) =>
           wret' = "False" /\ web_viewer' = web_viewer
    /\ (WebCalled("scroll_down") /\ web_viewer.scroll_position = MaxScroll) =>
           wret' = "False" /\ web_viewer' = web_viewer

\* C27 as stated: through load_url, reload, go_back, go_forward and the
\* scroll methods, whatever content the fetches return,
\* 0 <= scroll_position <= max(0, number of lines - SCROLL_FULL_PAGE), and
\* the scroll steps are as C27_Step says.
C27_AsStated ==
    /\ [](web_viewer.scroll_position >= 0
          /\ web_viewer.scroll_position <= MaxScroll)
    /\ [][C27_Step]_vars

\* The links of the page shown.
Links ==
    IF web_viewer.current_page = NoPage
    THEN <<>>
    ELSE web_viewer.current_page.links

\* The steps of C28: select_next_link goes one link on, from -1 and from the
\* last link to the first; select_previous_link one link back, from -1 and
\* from the first link to the last; both return False and change nothing on
\* a page without links; load_url, reload, go_back and go_forward that return
\* True set selected_link to -1.
C28_Step ==
    \A selected \in {web_viewer.selected_link}, count \in {Len(Links)} :
        /\ (WebCalled("select_next_link") /\ count > 0) =>
               /\ wret' = "True"
               /\ web_viewer'.selected_link =
                      (IF selected = -1 \/ selected = count - 1
                       THEN 0 ELSE selected + 1)
        /\ (WebCalled("select_previous_link") /\ count > 0) =>
               /\ wret' = "True"
               /\ web_viewer'.selected_link =
                      (IF selected = -1 \/ selected = 0
                       THEN count - 1 ELSE selected - 1)
        /\ (/\ WebCalled("select_next_link")
               \/ WebCalled("select_previous_link")
            /\ count = 0) =>
               wret' = "False" /\ web_viewer' = web_viewer
        /\ (/\ \/ WebCalled("load_url")
               \/ WebCalled("reload")
               \/ WebCalled("go_back")
               \/ WebCalled("go_forward")
            /\ wret' = "True") =>
               web_viewer'.selected_link = -1

\* C28: selected_link is -1 or the index of a link of the page shown, and
\* the link methods and the navigations step as C28_Step says.
C28_SelectedLink ==
    /\ [](\/ web_viewer.selected_link = -1
          \/ /\ web_viewer.selected_link >= 0
             /\ web_viewer.selected_link < Len(Links))
    /\ [][C28_Step]_vars

C28_Witness ==
    /\ wcall.op = "select_previous_link"
    /\ wret = "True"
    /\ web_viewer.selected_link = Len(Links) - 1
    /\ Len(Links) >= 2

\* The line _send_command has just read is one it skips: an event, a line
\* that is not one JSON text, or a reply to a request id sent earlier.
Skips(line, request_id) ==
    \/ Len(line) # 1
    \/ line[1] = Garbage
    \/ "event" \in DOMAIN line[1]
    \/ /\ "request_id" \in DOMAIN line[1]
       /\ line[1].request_id < request_id

\* The steps of C29: a command written to the socket carries the request id
\* before plus one; a skipped line leaves _send_command in its loop; a
\* timeout or the end of the stream makes it return None.
C29_Step ==
    /\ player'.request_id \in {player.request_id, player.request_id + 1}
    /\ wire' # wire => wire' = Append(wire, player.request_id + 1)
    /\ (pcall'.step = "line" /\ Skips(pcall'.line, player.request_id)) =>
           ppc' = ppc /\ InLoop(ppc') /\ pret' = pret
    /\ (pcall'.step = "recv" /\ pcall'.received \in {"timeout", "closed"}) =>
           ~InLoop(ppc') /\ pret' = NoneReturned

\* C29: the request ids written to the socket go up, none written twice and
\* none above the id taken last; a response returned carries the request id just sent, or neither a request
\* id nor an event; _send_command steps as C29_Step says.
C29_RequestIds ==
    /\ [](/\ \A n \in 1..Len(wire) :
                 /\ wire[n] <= player.request_id
                 /\ \A m \in 1..(n - 1) : wire[m] < wire[n]
          /\ (~InLoop(ppc) /\ "error" \in DOMAIN pret) =>
                 \/ /\ "request_id" \in DOMAIN pret
                    /\ pret.request_id = player.request_id
                 \/ /\ "request_id" \notin DOMAIN pret
                    /\ "event" \notin DOMAIN pret)
    /\ [][C29_Step]_vars

C29_Witness ==
    /\ pcall.op = "_send_command"
    /\ pcall.step = "line"
    /\ pcall.line = <<Reply(1)>>
    /\ player.request_id = 2
    /\ wire = <<1, 2>>
    /\ ppc = "reading"
    /\ pret = NoneReturned

\* The step taken is the reading of key at the top of the loop.
KeyRead(key) == kpc = "key" /\ kcall'.key = key /\ kcall'.top

\* The steps of C30 as stated: G read right after the digit keys d1..dk, d1
\* not 0, goes to page n = int(d1..dk) when 1 <= n <= total_pages and
\* otherwise prints an error and stays; either way num_buffer is empty
\* after it; G without a pending count goes to the last page; 0 without a
\* pending count sets the zoom to 1.0 and starts no count.
C30_Step ==
    /\ (KeyRead("G") /\ Run # <<>> /\ Run[1] # "0") =>
           \A n \in {PyInt(Run)} :
               /\ IF 1 <= n /\ n <= pdfcat.viewer.total_pages
                  THEN pdfcat'.viewer.current_page = n - 1
                  ELSE /\ kout' = "error"
                       /\ pdfcat'.viewer.current_page
                              = pdfcat.viewer.current_page
               /\ pdfcat'.num_buffer = <<>>
    /\ (KeyRead("G") /\ pdfcat.num_buffer = <<>>) =>
           /\ pdfcat'.viewer.current_page = pdfcat.viewer.total_pages - 1
           /\ pdfcat'.num_buffer = <<>>
    /\ (KeyRead("0") /\ pdfcat.num_buffer = <<>>) =>
           /\ pdfcat'.viewer.zoom_level = ONE
           /\ pdfcat'.num_buffer = <<>>

\* C30 as stated: the digits typed before G make the page G goes to.
C30_AsStated == [][C30_Step]_vars

====
